---- MODULE Spec2Model ----
(***************************************************************************)
(* Verification model of PFER: the project packer / reconstructor.         *)
(*                                                                         *)
(* Two implementations live in the repository and both are modelled:       *)
(*   - main.py            (ProjectPackerTool: FileInfo records, worker     *)
(*                         tasks, glob/negation exclusion)                 *)
(*   - file_processor.py  (ProjectReconstructor, combine_files,            *)
(*                         exact/simple exclusion), with constants.py      *)
(*                                                                         *)
(* Text is a sequence of one-character strings, so that the regular        *)
(* expressions, strip(), split() and startswith() of the source operate    *)
(* on characters exactly as in Python.  Paths follow posixpath (the model  *)
(* fixes os.sep = "/", os.name = "posix").                                 *)
(***************************************************************************)
EXTENDS Integers, Sequences, FiniteSets, TLC

VARIABLES
    file_data,      \* main.py  self.file_data : sequence of FileInfo
    text_area,      \* main.py  self.text_area : the flattened text
    origin,         \* history: the records the text area was last serialized from
    origin_text,    \* history: the text serialized from them
    stage,          \* history: "empty" | "loaded" | "parsed" | "serialized" | "reparsed" | "settled"
    doc,            \* history: the blocks of the document loaded into the text area
    impl,           \* which reconstruct runs: "fp" | "main" | "none"
    env,            \* the environment of the output root (existence, creatability)
    fs,             \* output file system: [files: path -> content, dirs: set of paths]
    attempts,       \* number of makedirs/open calls the run issued below the root
    recon,          \* the reconstruct run: pc, records, index, counters, result
    rules,          \* glob strategy: the exclusion patterns, in order
    cand,           \* glob strategy: the candidate path and whether it is a directory
    verdict,        \* glob strategy: the recorded result of is_excluded
    tree,           \* pack: the source tree
    walk,           \* pack: the walk in progress (pc, queue, counters, log)
    worker,         \* main.py self.worker and the progress dialog of either program
    config,         \* config_manager.py: the configuration file and the last calls
    gui             \* buildGUi.py: the configuration in the window and the save timer

vars == <<file_data, text_area, origin, origin_text, stage, doc, impl, env, fs,
          attempts, recon, rules, cand, verdict, tree, walk, worker, config, gui>>

codecVars == <<file_data, text_area, origin, origin_text, stage>>
reconVars == <<doc, impl, env, fs, attempts, recon>>
exclVars  == <<rules, cand, verdict, config, gui>>
walkVars  == <<tree, walk, worker>>

-----------------------------------------------------------------------------
(* Characters and Python string primitives                                 *)

\* str.strip() / regex \s : the whitespace characters of the model's alphabet
WhiteSpace == {" ", "\n", "\t", "\r"}

\* regex \w : letters, digits and underscore
WordChars ==
    {"a","b","c","d","e","f","g","h","i","j","k","l","m","n","o","p","q","r",
     "s","t","u","v","w","x","y","z","A","B","C","D","E","F","G","H","I","J",
     "K","L","M","N","O","P","Q","R","S","T","U","V","W","X","Y","Z",
     "0","1","2","3","4","5","6","7","8","9","_"}

Min(S) == CHOOSE x \in S : \A y \in S : x <= y
Max(S) == CHOOSE x \in S : \A y \in S : y <= x

Take(s, n) == SubSeq(s, 1, n)
Drop(s, n) == SubSeq(s, n + 1, Len(s))

\* s[i..] begins with p  (str.startswith at an offset)
StartsWithAt(s, i, p) ==
    /\ i >= 1
    /\ i + Len(p) - 1 <= Len(s)
    /\ \A k \in 1..Len(p) : s[i + k - 1] = p[k]

StartsWith(s, p) == StartsWithAt(s, 1, p)
EndsWith(s, p) == Len(p) <= Len(s) /\ StartsWithAt(s, Len(s) - Len(p) + 1, p)

\* p in s  (substring test)
Contains(s, p) == \E i \in 1..(Len(s) + 1) : StartsWithAt(s, i, p)

\* the first index >= i whose character is not in set C  (Len(s)+1 if none)
SkipSet(s, i, C) ==
    Min({k \in i..(Len(s) + 1) : k = Len(s) + 1 \/ s[k] \notin C})

\* the first index >= i whose character is in set C  (Len(s)+1 if none)
FindSet(s, i, C) ==
    Min({k \in i..(Len(s) + 1) : k = Len(s) + 1 \/ s[k] \in C})

\* str.lstrip(chars) / str.rstrip(chars) / str.strip(chars)
LStripSet(s, C) == Drop(s, SkipSet(s, 1, C) - 1)
RStripSet(s, C) ==
    Take(s, Max({k \in 0..Len(s) : k = 0 \/ s[k] \notin C}))
StripSet(s, C) == RStripSet(LStripSet(s, C), C)

\* str.strip()
Strip(s) == StripSet(s, WhiteSpace)

\* s.split('\n', 1)[0]
FirstLine(s) == Take(s, FindSet(s, 1, {"\n"}) - 1)

\* s.split('\n', 1)[1]  (only used when '\n' in s)
AfterFirstLine(s) == Drop(s, FindSet(s, 1, {"\n"}))

\* re.split(r'[C]', s) / s.split(c): the pieces between separators, empty ones kept
RECURSIVE SplitSet(_, _)
SplitSet(s, C) ==
    LET k == FindSet(s, 1, C)
    IN  IF k > Len(s) THEN <<s>>
        ELSE <<Take(s, k - 1)>> \o SplitSet(Drop(s, k), C)

\* sep.join(parts)
RECURSIVE Join(_, _)
Join(parts, sep) ==
    IF parts = <<>> THEN <<>>
    ELSE IF Len(parts) = 1 THEN parts[1]
    ELSE parts[1] \o sep \o Join(Tail(parts), sep)

\* s.replace(a, b) for single characters
ReplaceChar(s, a, b) == [k \in 1..Len(s) |-> IF s[k] = a THEN b ELSE s[k]]

SeqToSet(s) == {s[k] : k \in 1..Len(s)}

\* The grave accent (U+0060).  The lexer accepts no grave accent inside a string
\* literal, so the character is named instead of written.
Backtick == "BACKTICK"

\* the character U+0000, which no file name may hold
Nul == "NUL"
Fence == <<Backtick, Backtick, Backtick>>

-----------------------------------------------------------------------------
(* The codec of main.py: regular expressions, serialize, parse             *)

\* One match attempt of  ```(\w*)\n(.*?)\n\s*```  (re.DOTALL) at index i.
\* minTag is 0 for the \w* of main.py and 1 for the \w+ of constants.py.
\* language = group(1), body = group(2), next = match.end() + 1.
BlockMatchAt(text, i, minTag) ==
    LET tagStart  == i + 3
        tagEnd    == SkipSet(text, tagStart, WordChars)
        bodyStart == tagEnd + 1
        Closes(e) == /\ text[e] = "\n"
                     /\ StartsWithAt(text, SkipSet(text, e + 1, WhiteSpace), Fence)
        ends      == {e \in bodyStart..Len(text) : Closes(e)}
        ok        == /\ StartsWithAt(text, i, Fence)
                     /\ tagEnd - tagStart >= minTag
                     /\ tagEnd <= Len(text)
                     /\ text[tagEnd] = "\n"
                     /\ ends # {}
    IN  IF ok
        THEN [ok |-> TRUE,
              language |-> SubSeq(text, tagStart, tagEnd - 1),
              body |-> SubSeq(text, bodyStart, Min(ends) - 1),
              next |-> SkipSet(text, Min(ends) + 1, WhiteSpace) + 3]
        ELSE [ok |-> FALSE, language |-> <<>>, body |-> <<>>, next |-> i + 1]

\* PATTERN.finditer(text): the non-overlapping matches, leftmost first
RECURSIVE finditer(_, _, _)
finditer(text, pos, minTag) ==
    LET starts == {i \in pos..Len(text) : BlockMatchAt(text, i, minTag).ok}
    IN  IF starts = {} THEN <<>>
        ELSE LET m == BlockMatchAt(text, Min(starts), minTag)
             IN  <<m>> \o finditer(text, m.next, minTag)

\* main.py:  CODE_BLOCK_PATTERN = re.compile(r"```(\w*)\n(.*?)\n\s*```", re.DOTALL)
CODE_BLOCK_PATTERN_main(text) == finditer(text, 1, 0)

\* The character class [#|//|;] of PATH_COMMENT_PATTERN: it is a class, so it
\* holds the four characters  #  |  /  ;
MarkerChars == {"#", "|", "/", ";"}

MarkupOpen == <<"<", "!", "-", "-">>

\* The tail  ([#|//|;]+)?\s*(\S+)  of PATH_COMMENT_PATTERN tried at index p:
\* the marker run is greedy and gives characters back until \S+ can match.
MarkerAndPath(line, p) ==
    LET run  == SkipSet(line, p, MarkerChars) - p
        ks   == {k \in 0..run : SkipSet(line, p + k, WhiteSpace) <= Len(line)}
    IN  IF ks = {} THEN [ok |-> FALSE, g1 |-> <<>>, g2 |-> <<>>]
        ELSE LET k == Max(ks)
                 q == SkipSet(line, p + k, WhiteSpace)
             IN  [ok |-> TRUE,
                  g1 |-> SubSeq(line, p, p + k - 1),
                  g2 |-> SubSeq(line, q, FindSet(line, q, WhiteSpace) - 1)]

\* main.py:  PATH_COMMENT_PATTERN.match(line)
\*   ^\s*(?:<!--\s*)?([#|//|;]+)?\s*(\S+)(?:\s*-->)?
\* g1 = group(1) or '', g2 = group(2)
PATH_COMMENT_PATTERN(line) ==
    LET p0 == SkipSet(line, 1, WhiteSpace)
        withOpen == MarkerAndPath(line, SkipSet(line, p0 + 4, WhiteSpace))
    IN  IF StartsWithAt(line, p0, MarkupOpen) /\ withOpen.ok
        THEN withOpen
        ELSE MarkerAndPath(line, p0)

\* main.py: INVALID_PATH_CHARS_PATTERN = re.compile(r'[<>:"|?*]')  (.search)
InvalidPathChars == {"<", ">", ":", "\"", "|", "?", "*"}
INVALID_PATH_CHARS_PATTERN(path) == \E k \in 1..Len(path) : path[k] \in InvalidPathChars

FileInfo(rel_path, content, language, comment_symbol) ==
    [rel_path |-> rel_path, content |-> content,
     language |-> language, comment_symbol |-> comment_symbol]

\* the comment_line of _regenerate_combined_text
comment_line(file_info) ==
    IF Contains(file_info.comment_symbol, MarkupOpen)
    THEN MarkupOpen \o <<" ">> \o file_info.rel_path \o <<" ", "-", "-", ">", "\n">>
    ELSE IF file_info.comment_symbol # <<>>
    THEN file_info.comment_symbol \o <<" ">> \o file_info.rel_path \o <<"\n">>
    ELSE <<>>

\* one block of _regenerate_combined_text
block(file_info) ==
    Fence \o file_info.language \o <<"\n">>
          \o comment_line(file_info)
          \o Strip(file_info.content) \o <<"\n">>
          \o Fence \o <<"\n">>

\* main.py _regenerate_combined_text: "\n".join(blocks)
regenerate_combined_text(data) ==
    Join([k \in 1..Len(data) |-> block(data[k])], <<"\n">>)

\* a variant of the dict assignment in which the first value of a key stays
DictPutFirstKept(map, info) ==
    IF \E k \in 1..Len(map) : map[k].rel_path = info.rel_path
    THEN map
    ELSE Append(map, info)

\* a variant of the dict assignment in which an assigned key moves to the end
DictPutLastPosition(map, info) ==
    Append(SelectSeq(map, LAMBDA r : r.rel_path # info.rel_path), info)

\* path_to_info_map[rel_path] = info : a dict keeps the position of the first
\* insertion of a key and the value of the last
DictPut(map, info) ==
    IF \E k \in 1..Len(map) : map[k].rel_path = info.rel_path
    THEN [k \in 1..Len(map) |->
            IF map[k].rel_path = info.rel_path THEN info ELSE map[k]]
    ELSE Append(map, info)

\* the body of the loop of _parse_text_to_tree for one regex match
ParseBlock(map, match) ==
    LET block_content == Strip(match.body)
        first_line    == FirstLine(block_content)
        path_match    == PATH_COMMENT_PATTERN(first_line)
        content       == IF "\n" \in SeqToSet(block_content)
                         THEN AfterFirstLine(block_content) ELSE <<>>
    IN  IF path_match.ok
        THEN DictPut(map, FileInfo(Strip(path_match.g2), content,
                                   match.language, path_match.g1))
        ELSE map

RECURSIVE ParseBlocks(_, _)
ParseBlocks(map, matches) ==
    IF matches = <<>> THEN map
    ELSE ParseBlocks(ParseBlock(map, Head(matches)), Tail(matches))

\* main.py _parse_text_to_tree: list(path_to_info_map.values())
parse_text_to_tree(full_content) ==
    ParseBlocks(<<>>, CODE_BLOCK_PATTERN_main(full_content))

-----------------------------------------------------------------------------
(* posixpath and the output file system                                    *)

Slash == <<"/">>

\* os.path.isabs
isabs(p) == StartsWith(p, Slash)

\* os.path.join(a, b)
join2(a, b) ==
    IF StartsWith(b, Slash) THEN b
    ELSE IF a = <<>> \/ EndsWith(a, Slash) THEN a \o b
    ELSE a \o Slash \o b

\* os.path.join(a, *parts)
RECURSIVE join(_, _)
join(a, parts) ==
    IF parts = <<>> THEN a ELSE join(join2(a, Head(parts)), Tail(parts))

\* the loop of posixpath.normpath over the components
RECURSIVE NormComps(_, _, _)
NormComps(comps, new_comps, initial_slashes) ==
    IF comps = <<>> THEN new_comps
    ELSE LET comp == Head(comps)
         IN  IF comp = <<>> \/ comp = <<".">>
             THEN NormComps(Tail(comps), new_comps, initial_slashes)
             ELSE IF \/ comp # <<".", ".">>
                     \/ (initial_slashes = 0 /\ new_comps = <<>>)
                     \/ (new_comps # <<>> /\ new_comps[Len(new_comps)] = <<".", ".">>)
             THEN NormComps(Tail(comps), Append(new_comps, comp), initial_slashes)
             ELSE IF new_comps # <<>>
             THEN NormComps(Tail(comps), Take(new_comps, Len(new_comps) - 1), initial_slashes)
             ELSE NormComps(Tail(comps), new_comps, initial_slashes)

\* os.path.normpath
normpath(path) ==
    IF path = <<>> THEN <<".">>
    ELSE LET initial_slashes ==
                 IF ~StartsWith(path, Slash) THEN 0
                 ELSE IF StartsWith(path, <<"/", "/">>) /\ ~StartsWith(path, <<"/", "/", "/">>)
                 THEN 2 ELSE 1
             body == Join(NormComps(SplitSet(path, {"/"}), <<>>, initial_slashes), Slash)
             out  == (IF initial_slashes = 2 THEN <<"/", "/">>
                      ELSE IF initial_slashes = 1 THEN Slash ELSE <<>>) \o body
         IN  IF out = <<>> THEN <<".">> ELSE out

\* os.path.abspath of a path that is absolute already (the output root is)
abspath(path) == normpath(path)

\* os.path.dirname
dirname(p) ==
    LET i    == Max({k \in 0..Len(p) : k = 0 \/ p[k] = "/"})
        head == Take(p, i)
    IN  IF head # <<>> /\ SeqToSet(head) # {"/"} THEN RStripSet(head, {"/"}) ELSE head

\* os.path.basename
basename(p) == Drop(p, Max({k \in 0..Len(p) : k = 0 \/ p[k] = "/"}))

\* The directory the kernel reaches for an absolute path (no symbolic links in the
\* model): slashes collapse, "." is dropped, ".." goes to the parent.
Resolve(p) == Slash \o Join(NormComps(SplitSet(p, {"/"}), <<>>, 1), Slash)

\* The file system is a record  [files: path -> content, dirs: set of paths],
\* all paths resolved.  e is the environment: e.bad_dirs cannot be created,
\* e.bad_files cannot be opened for writing.

\* the components of a path that name something: '' and '.' name nothing
Comps(p) == SelectSeq(SplitSet(p, {"/"}), LAMBDA c : c # <<>> /\ c # <<".">>)

Child(cur, comp) ==
    IF comp = <<".", ".">> THEN Resolve(cur \o <<"/", ".", ".">>)
    ELSE Resolve(cur \o Slash \o comp)

\* follow comps from directory cur; ok iff every step lands on an existing directory
RECURSIVE WalkDirs(_, _, _)
WalkDirs(st, cur, comps) ==
    IF comps = <<>> THEN [ok |-> TRUE, at |-> cur]
    ELSE IF Child(cur, Head(comps)) \in st.dirs
    THEN WalkDirs(st, Child(cur, Head(comps)), Tail(comps))
    ELSE [ok |-> FALSE, at |-> cur]

\* os.path.exists(p)
exists(st, p) ==
    LET comps == Comps(p)
        front == WalkDirs(st, Slash, Take(comps, Len(comps) - 1))
        last  == Child(front.at, comps[Len(comps)])
    IN  \/ comps = <<>>
        \/ /\ front.ok
           /\ \/ last \in st.dirs
              \/ last \in DOMAIN st.files /\ ~EndsWith(p, Slash)

\* mkdir of every missing component of p, top down; ok = FALSE is an exception:
\* ValueError (embedded null byte) for a name that holds U+0000, else OSError
RECURSIVE MkComps(_, _, _, _)
MkComps(st, e, cur, comps) ==
    IF comps = <<>> THEN [ok |-> TRUE, st |-> st, exc |-> "None"]
    ELSE LET nxt == Child(cur, Head(comps))
         IN  IF nxt \in st.dirs THEN MkComps(st, e, nxt, Tail(comps))
             ELSE IF Nul \in SeqToSet(Head(comps))
             THEN [ok |-> FALSE, st |-> st, exc |-> "ValueError"]
             ELSE IF nxt \in DOMAIN st.files \/ nxt \in e.bad_dirs
             THEN [ok |-> FALSE, st |-> st, exc |-> "OSError"]
             ELSE MkComps([st EXCEPT !.dirs = @ \cup {nxt}], e, nxt, Tail(comps))

\* os.makedirs(p, exist_ok=True)
makedirs(st, e, p) == MkComps(st, e, Slash, Comps(p))

\* with open(p, 'w') as f: f.write(content)      ok = FALSE is an exception:
\* ValueError (embedded null byte) for a path that holds U+0000, else OSError
open_write(st, e, p, content) ==
    LET comps == Comps(p)
        front == WalkDirs(st, Slash, Take(comps, Len(comps) - 1))
        n     == Child(front.at, comps[Len(comps)])
    IN  IF Nul \in SeqToSet(p)
        THEN [ok |-> FALSE, st |-> st, exc |-> "ValueError"]
        ELSE IF \/ comps = <<>>
                \/ EndsWith(p, Slash)
                \/ ~front.ok
                \/ n \in st.dirs
                \/ n \in e.bad_files
        THEN [ok |-> FALSE, st |-> st, exc |-> "OSError"]
        ELSE [ok |-> TRUE, exc |-> "None",
              st |-> [st EXCEPT !.files =
                        [q \in (DOMAIN st.files) \cup {n} |->
                            IF q = n THEN content ELSE st.files[q]]]]

-----------------------------------------------------------------------------
(* file_processor.py: ProjectReconstructor                                 *)

\* constants.py:  CODE_BLOCK_PATTERN = re.compile(r"```(\w+)\n(.*?)\n\s*```", re.DOTALL)
CODE_BLOCK_PATTERN_const(text) == finditer(text, 1, 1)

\* constants.py:  FIRST_LINE_PATH_COMMENT_PATTERN = re.compile(r"^\s*#\s*(\S+)")  (.match)
FIRST_LINE_PATH_COMMENT_PATTERN(line) ==
    LET p0 == SkipSet(line, 1, WhiteSpace)
        q  == SkipSet(line, p0 + 1, WhiteSpace)
    IN  IF p0 <= Len(line) /\ line[p0] = "#" /\ q <= Len(line)
        THEN [ok |-> TRUE, g1 |-> SubSeq(line, q, FindSet(line, q, WhiteSpace) - 1)]
        ELSE [ok |-> FALSE, g1 |-> <<>>]

\* None, and every value Python's "if rel_path:" takes for false
None == <<>>

\* ProjectReconstructor._extract_path_from_comment
extract_path_from_comment(block_content_with_path) ==
    LET first_line     == Strip(FirstLine(block_content_with_path))
        match          == FIRST_LINE_PATH_COMMENT_PATTERN(first_line)
        potential_path == Strip(match.g1)
        \* re.sub(r"^[*(]+|[)*]+$", "", potential_path).strip('`')
        cleaned        == StripSet(RStripSet(LStripSet(potential_path, {"*", "("}),
                                             {")", "*"}), {Backtick})
    IN  IF /\ block_content_with_path # <<>>
           /\ match.ok
           /\ potential_path # <<>>
           /\ \E k \in 1..Len(potential_path) :
                  potential_path[k] \in {"/", "\\", ".", "_", "-"}
           /\ cleaned # <<>>
           /\ cleaned[1] # "#"
        THEN cleaned
        ELSE None

\* is_potentially_unsafe of _parse_content, with os.sep = "/" and os.name = "posix"
is_potentially_unsafe(rel_path) ==
    \/ isabs(rel_path)
    \/ <<".", ".">> \in SeqToSet(SplitSet(rel_path, {"/"}))

\* the body of the loop of _parse_content for one regex match
ParseContentBlock(extracted_files, code_match) ==
    LET block_content_with_path == Strip(code_match.body)
        rel_path == extract_path_from_comment(block_content_with_path)
    IN  IF /\ rel_path # None
           /\ ~INVALID_PATH_CHARS_PATTERN(rel_path)
           /\ ~is_potentially_unsafe(rel_path)
        THEN DictPut(extracted_files,
                     [rel_path |-> rel_path, content |-> block_content_with_path])
        ELSE extracted_files

RECURSIVE ParseContentBlocks(_, _)
ParseContentBlocks(extracted_files, matches) ==
    IF matches = <<>> THEN extracted_files
    ELSE ParseContentBlocks(ParseContentBlock(extracted_files, Head(matches)),
                            Tail(matches))

\* ProjectReconstructor._parse_content: the dict, as the sequence of its items
parse_content(full_content) ==
    ParseContentBlocks(<<>>, CODE_BLOCK_PATTERN_const(full_content))

\* content.replace('\r\n', '\n').replace('\r', '\n'): the '\r' of a '\r\n' goes,
\* every other '\r' becomes '\n'
norm_content(content) ==
    LET keep == {k \in 1..Len(content) :
                    ~(content[k] = "\r" /\ k < Len(content) /\ content[k + 1] = "\n")}
        nth(j) == CHOOSE k \in keep : Cardinality({m \in keep : m <= k}) = j
    IN  [j \in 1..Cardinality(keep) |->
            IF content[nth(j)] = "\r" THEN "\n" ELSE content[nth(j)]]

\* path_parts of reconstruct_from_content:
\*   [p for p in re.split(r'[/\\]', rel_path.strip('/\\')) if p and p != '.']
path_parts(rel_path) ==
    SelectSeq(SplitSet(StripSet(rel_path, {"/", "\\"}), {"/", "\\"}),
              LAMBDA p : p # <<>> /\ p # <<".">>)

\* One iteration of the loop of reconstruct_from_content over (rel_path, code_content).
\* st is the file system, e the environment; the result tells what the iteration
\* counted and how many makedirs/open calls it issued.
ReconstructOneFp(st, e, abs_output_root_dir, rel_path, code_content) ==
    LET parts         == path_parts(rel_path)
        full_path     == join(abs_output_root_dir, parts)
        abs_full_path == abspath(full_path)
        out_dir       == dirname(full_path)
        need_mkdir    == out_dir # <<>> /\ ~exists(st, out_dir)
        made          == IF need_mkdir THEN makedirs(st, e, out_dir)
                         ELSE [ok |-> TRUE, st |-> st, exc |-> "None"]
        written       == open_write(made.st, e, full_path, code_content)
    IN  IF parts = <<>> \/ ~StartsWith(abs_full_path, abs_output_root_dir)
        THEN [st |-> st, created |-> 0, error |-> 1, calls |-> 0]
        ELSE IF ~made.ok
        THEN [st |-> made.st, created |-> 0, error |-> 1, calls |-> 1]
        ELSE IF ~written.ok
        THEN [st |-> written.st, created |-> 0, error |-> 1,
              calls |-> (IF need_mkdir THEN 2 ELSE 1)]
        ELSE [st |-> written.st, created |-> 1, error |-> 0,
              calls |-> (IF need_mkdir THEN 2 ELSE 1)]

-----------------------------------------------------------------------------
(* main.py: ProjectPackerTool._task_reconstruction                         *)

\* the path test of _task_reconstruction
InvalidOrUnsafe(rel_path) ==
    \/ <<".", ".">> \in SeqToSet(SplitSet(rel_path, {"/"}))
    \/ INVALID_PATH_CHARS_PATTERN(rel_path)

\* One iteration of the loop of _task_reconstruction over file_info.  The
\* handler of the iteration is "except (IOError, OSError)": any other exception
\* leaves the loop and the task (raised).
ReconstructOneMain(st, e, output_path, file_info) ==
    LET full_path == join2(output_path, file_info.rel_path)
        made      == makedirs(st, e, dirname(full_path))
        written   == open_write(made.st, e, full_path, file_info.content)
    IN  IF InvalidOrUnsafe(file_info.rel_path)
        THEN [st |-> st, created |-> 0, error |-> 0, invalid_path |-> 1, calls |-> 0,
              raised |-> FALSE]
        ELSE IF ~made.ok
        THEN [st |-> made.st, created |-> 0,
              error |-> (IF made.exc = "OSError" THEN 1 ELSE 0),
              invalid_path |-> 0, calls |-> 1, raised |-> (made.exc # "OSError")]
        ELSE IF ~written.ok
        THEN [st |-> written.st, created |-> 0,
              error |-> (IF written.exc = "OSError" THEN 1 ELSE 0),
              invalid_path |-> 0, calls |-> 2, raised |-> (written.exc # "OSError")]
        ELSE [st |-> written.st, created |-> 1, error |-> 0, invalid_path |-> 0, calls |-> 2,
              raised |-> FALSE]

-----------------------------------------------------------------------------
(* Bounded inputs                                                          *)

\* the most blocks a generated document holds
MaxBlocks == 2

\* sequences over S of length 1..n
RECURSIVE SeqsUpTo(_, _)
SeqsUpTo(S, n) ==
    IF n = 0 THEN {}
    ELSE LET shorter == SeqsUpTo(S, n - 1)
         IN  {<<x>> : x \in S} \cup shorter \cup {Append(t, x) : t \in shorter, x \in S}

Py == <<"p", "y">>
Hash == <<"#">>

OutputRoot == <<"/", "o">>

\* path comments of the documents handed to a reconstruction
P_src_main == <<"s","r","c","/","m","a","i","n",".","p","y">>
P_a_b      == <<"a","/","b",".","p","y">>
P_escape   == <<".",".","/","e","s","c","a","p","e",".","p","y">>
P_abs      == <<"/","a","b","s","/","p","a","t","h",".","p","y">>
P_drive    == <<"C",":","/","a","b","s","/","p","a","t","h",".","p","y">>
P_sibling  == <<".",".","\\","o","b","\\","f",".","p","y">>
P_nul      == <<"a", Nul, ".","p","y">>

ReconPaths == {P_src_main, P_a_b, P_escape, P_abs, P_drive, P_sibling, P_nul}
ReconContents == {<<"x">>, <<"y">>}

ReconBlocks == {FileInfo(p, c, Py, Hash) : p \in ReconPaths, c \in ReconContents}

\* the documents, each given by its blocks; its text is one fenced block per
\* element, written as serialize writes them
ReconDocs == SeqsUpTo(ReconBlocks, MaxBlocks)

\* the environments of the output root
Envs ==
    {[root |-> OutputRoot, root_exists |-> TRUE,  bad_dirs |-> {}, bad_files |-> {}],
     [root |-> OutputRoot, root_exists |-> FALSE, bad_dirs |-> {}, bad_files |-> {}],
     [root |-> OutputRoot, root_exists |-> FALSE, bad_dirs |-> {OutputRoot}, bad_files |-> {}],
     [root |-> OutputRoot, root_exists |-> TRUE,  bad_dirs |-> {OutputRoot \o <<"/", "a">>},
      bad_files |-> {OutputRoot \o Slash \o P_src_main}]}

InitFs(e) ==
    [files |-> <<>>,
     dirs  |-> {Slash} \cup (IF e.root_exists THEN {e.root} ELSE {})]

IdleRecon ==
    [pc |-> "idle", records |-> <<>>, i |-> 0, success |-> FALSE,
     created |-> 0, error |-> 0, invalid_path |-> 0]

\* the state of a pack: the worker and statistics of main.py, the counters of
\* combine_files, and the files a pack opened and emitted; for the walk of
\* combine_files taken directory by directory: the directories os.walk still
\* has to visit, the files left in the current one, whether the progress
\* callback was called before, and the 'cancelled' of the result
IdleWalk ==
    [pc |-> "idle", selected_suffixes |-> {},
     all_filepaths |-> <<>>, i |-> 0, new_file_data |-> <<>>,
     extracted |-> 0, skipped_type |-> 0, error |-> 0,
     file_count |-> 0, skipped_count |-> 0, error_count |-> 0,
     combined |-> <<>>, opened |-> {}, merged |-> <<>>,
     pending |-> <<>>, files |-> <<>>, called |-> FALSE, cancelled |-> FALSE]

\* No worker thread yet and no progress dialog.  running is the number of Worker
\* threads that are running, is_cancelled the cancellation flag (Worker.is_cancelled
\* in main.py, the cancel state of the progress dialog in buildGUi.py),
\* progress_dialog tells that the modal progress dialog is open; started and
\* rejected count the requests that started a worker and those turned down.
\* outcome is how the task function of the Worker ended ("none" while it runs,
\* "complete", "partial" after a break, "raised"), signal the signal of the
\* Worker that is queued to the main thread ("none" | "finished" | "error"),
\* emitted the number of finished and error signals the Worker has emitted.
IdleWorker ==
    [running |-> 0, is_cancelled |-> FALSE, progress_dialog |-> FALSE,
     started |-> 0, rejected |-> 0, outcome |-> "none", signal |-> "none",
     emitted |-> 0]

\* main.py Worker(...) and worker.start(), with the progress dialog that
\* _set_ui_for_task(True, ...) opens
StartWorker(w) ==
    [w EXCEPT !.running = @ + 1, !.is_cancelled = FALSE, !.progress_dialog = TRUE,
              !.started = @ + 1, !.outcome = "none", !.signal = "none",
              !.emitted = 0]

\* a Worker.run that emits whatever the cancellation flag says
RunIgnoringCancel(w) ==
    [w EXCEPT !.signal = IF w.outcome = "raised" THEN "error" ELSE "finished",
              !.emitted = @ + 1]

\* main.py Worker.run once the task function has returned or raised: finished
\* or error is emitted unless is_cancelled is set
Run(w) ==
    IF w.is_cancelled
    THEN w
    ELSE [w EXCEPT !.signal = IF w.outcome = "raised" THEN "error" ELSE "finished",
                   !.emitted = @ + 1]

\* the most workers a behaviour starts, and the most requests it sees rejected
MaxStarts == 2
MaxRejected == 1

\* main.py: self.worker and self.worker.isRunning()
WorkerIsRunningNever == FALSE

WorkerIsRunning == worker.running > 0

-----------------------------------------------------------------------------
(* config_manager.py: Python values, JSON and the ConfigManager            *)

\* Python values, each with its type t; a str holds its characters, an int
\* its digits, a list or tuple its items, a dict its <<key, value>> pairs
Str(s)    == [t |-> "str", chars |-> s]
IntV(s)   == [t |-> "int", digits |-> s]
NoneV     == [t |-> "NoneType"]
SetV(S)   == [t |-> "set", members |-> S]
ListV(q)  == [t |-> "list", items |-> q]
TupleV(q) == [t |-> "tuple", elems |-> q]
DictV(S)  == [t |-> "dict", pairs |-> S]

\* the key is not in config_data
Missing == [t |-> "missing"]

\* isinstance(x, str), isinstance(x, list), isinstance(x, dict)
IsStr(x)  == x.t = "str"
IsList(x) == x.t = "list"
IsDict(x) == x.t = "dict"

\* constants.py DEFAULT_SUFFIX_MAP
DEFAULT_SUFFIX_MAP ==
    DictV({ <<Str(<<".","p","y">>), Str(<<"p","y","t","h","o","n">>)>>,
            <<Str(<<".","j","s">>), Str(<<"j","a","v","a","s","c","r","i","p","t">>)>>,
            <<Str(<<".","h","t","m","l">>), Str(<<"h","t","m","l">>)>>,
            <<Str(<<".","c","s","s">>), Str(<<"c","s","s">>)>>,
            <<Str(<<".","m","d">>), Str(<<"m","a","r","k","d","o","w","n">>)>>,
            <<Str(<<".","j","s","o","n">>), Str(<<"j","s","o","n">>)>>,
            <<Str(<<".","x","m","l">>), Str(<<"x","m","l">>)>>,
            <<Str(<<".","y","a","m","l">>), Str(<<"y","a","m","l">>)>>,
            <<Str(<<".","s","h">>), Str(<<"b","a","s","h">>)>>,
            <<Str(<<".","t","x","t">>), Str(<<"t","e","x","t">>)>> })

\* json.dump can encode the value: str, int and None, a list or tuple of
\* them, a dict of them with str or int keys; a set raises TypeError
JsonScalar(x) == x.t \in {"str", "int", "NoneType"}

JsonEncodable(x) ==
    CASE x.t = "list"  -> \A i \in 1..Len(x.items) : JsonScalar(x.items[i])
      [] x.t = "tuple" -> \A i \in 1..Len(x.elems) : JsonScalar(x.elems[i])
      [] x.t = "dict"  -> \A p \in x.pairs : p[1].t \in {"str", "int"} /\ JsonScalar(p[2])
      [] OTHER         -> JsonScalar(x)

\* the value json.load reads back from what json.dump wrote for x: a tuple
\* comes back as a list, an int key of a dict as the str of its digits
JsonRoundTrip(x) ==
    CASE x.t = "tuple" -> ListV(x.elems)
      [] x.t = "dict"  -> DictV({ <<(IF p[1].t = "int" THEN Str(p[1].digits) ELSE p[1]), p[2]>>
                                  : p \in x.pairs })
      [] OTHER         -> x

\* config_data, a dict: its three keys and one key more, each with its value
\* or Missing
ConfigData(suffix_map, selected_suffixes, exclude_patterns, extra) ==
    [suffix_map |-> suffix_map, selected_suffixes |-> selected_suffixes,
     exclude_patterns |-> exclude_patterns, extra |-> extra]

ConfigKeys == {"suffix_map", "selected_suffixes", "exclude_patterns", "extra"}

\* the states of the configuration file: absent, a JSON object (data holds the
\* values json.load gives for it), or the beginning of a JSON text only
AbsentFile == [kind |-> "absent"]
TruncatedFile == [kind |-> "truncated"]
JsonFile(d) == [kind |-> "json", data |-> d]

\* ConfigManager.load_config
load_config(file) ==
    LET config_data == IF file.kind = "json" THEN file.data
                       ELSE ConfigData(Missing, Missing, Missing, Missing)
        sm == config_data.suffix_map
        ss == config_data.selected_suffixes
        ep == config_data.exclude_patterns
        loaded_map ==
            IF IsDict(sm) /\ \A p \in sm.pairs : IsStr(p[1]) /\ IsStr(p[2])
            THEN sm ELSE NoneV
        loaded_selected_suffixes ==
            IF IsList(ss) /\ \A i \in 1..Len(ss.items) : IsStr(ss.items[i])
            THEN ss ELSE NoneV
        loaded_exclude_patterns == IF IsStr(ep) THEN ep ELSE Str(<<>>)
    IN  ConfigData(IF loaded_map # NoneV THEN loaded_map ELSE DEFAULT_SUFFIX_MAP,
                   loaded_selected_suffixes, loaded_exclude_patterns, Missing)

\* the checks save_config makes before it opens the file
save_config_accepts(config_data) ==
    /\ config_data.suffix_map # Missing
    /\ config_data.selected_suffixes # Missing
    /\ config_data.exclude_patterns # Missing
    /\ IsDict(config_data.suffix_map)
    /\ IsList(config_data.selected_suffixes)
    /\ IsStr(config_data.exclude_patterns)

\* ConfigManager.save_config: the value it returns and the file it leaves.
\* open(..., 'w') empties the file before json.dump runs, so a TypeError of
\* json.dump leaves the beginning of the text
save_config(file, config_data) ==
    IF ~save_config_accepts(config_data)
    THEN [ret |-> FALSE, file |-> file]
    ELSE IF \A k \in ConfigKeys : config_data[k] = Missing \/ JsonEncodable(config_data[k])
    THEN [ret |-> TRUE,
          file |-> JsonFile([k \in ConfigKeys |-> JsonRoundTrip(config_data[k])])]
    ELSE [ret |-> FALSE, file |-> TruncatedFile]

\* no configuration file and no call of the ConfigManager yet: saved and
\* loaded hold the argument of the last save_config and the result of the
\* load_config after it (<<>>: none), ret what the save returned, before the
\* file as it was before the save
NoConfig ==
    [file |-> AbsentFile, before |-> AbsentFile, saved |-> <<>>, ret |-> "none",
     loaded |-> <<>>]

\* no window
NoGui ==
    [open |-> FALSE, closed |-> FALSE, suffix_map |-> DictV({}), selected |-> {},
     text |-> <<>>, timer |-> FALSE, pending |-> 0, changes |-> 0, saves |-> 0,
     flushed |-> FALSE]

\* no source tree, no exclusion rules, no path checked
NoTree == [root |-> <<>>, dirs |-> {}, files |-> <<>>, unreadable |-> {}, listing |-> <<>>]

\* A source tree: listing gives, for each directory, the names os.walk reports
\* for it, in the order the file system lists them; files gives the contents;
\* unreadable files raise on open.
Tree(root, listing, files, unreadable) ==
    [root |-> root, dirs |-> {Slash} \cup DOMAIN listing, files |-> files,
     unreadable |-> unreadable, listing |-> listing]
NoRules ==
    [text |-> <<>>, patterns |-> <<>>,
     excluded_patterns |-> {}, excluded_suffixes_no_dot |-> {}]
NoVerdict == [glob |-> FALSE, simple |-> FALSE]

-----------------------------------------------------------------------------
(* Actions: text area, parse                                               *)

\* the user loads or pastes a document into the text area
LoadText(D) ==
    /\ recon.pc = "idle"
    /\ doc = <<>>
    /\ \E d \in D :
         /\ doc' = d
         /\ text_area' = regenerate_combined_text(d)
    /\ stage' = "loaded"
    /\ UNCHANGED <<file_data, origin, origin_text, impl, env, fs, attempts, recon>>
    /\ UNCHANGED exclVars /\ UNCHANGED walkVars

\* main.py _parse_text_to_tree, with the _update_data_from_ui it ends with
ParseTextToTree ==
    /\ impl = "main"
    /\ recon.pc = "idle"
    /\ walk.pc \notin {"running", "returned"}
    /\ Strip(text_area) # <<>>
    /\ file_data' = parse_text_to_tree(text_area)
    /\ text_area' = regenerate_combined_text(file_data')
    /\ stage' = CASE stage = "serialized" -> "reparsed"
                  [] stage = "loaded" -> "parsed"
                  [] OTHER -> "settled"
    /\ UNCHANGED <<origin, origin_text>>
    /\ UNCHANGED reconVars /\ UNCHANGED exclVars /\ UNCHANGED walkVars

-----------------------------------------------------------------------------
(* Actions: reconstruction                                                 *)

\* buildGUi.py _reconstruct_project up to the loop of reconstruct_from_content:
\* the output root is made, the text normalized and parsed
ReconFpBegin ==
    /\ impl = "fp"
    /\ recon.pc = "idle"
    /\ walk.pc \notin {"running", "returned"}
    /\ Strip(text_area) # <<>>
    /\ LET root == IF exists(fs, env.root) THEN [ok |-> TRUE, st |-> fs, exc |-> "None"]
                   ELSE makedirs(fs, env, env.root)
           files_dict == parse_content(norm_content(Strip(text_area)))
       IN  /\ fs' = root.st
           /\ recon' = IF ~root.ok
                       THEN [IdleRecon EXCEPT !.pc = "done", !.success = FALSE]
                       ELSE IF files_dict = <<>>
                       THEN [IdleRecon EXCEPT !.pc = "done", !.success = TRUE]
                       ELSE [IdleRecon EXCEPT !.pc = "loop", !.records = files_dict,
                                              !.i = 1]
    /\ UNCHANGED <<doc, impl, env, attempts>>
    /\ UNCHANGED codecVars /\ UNCHANGED exclVars /\ UNCHANGED walkVars

\* one iteration of the loop of reconstruct_from_content
ReconFpStep ==
    /\ impl = "fp"
    /\ recon.pc = "loop"
    /\ recon.i <= Len(recon.records)
    /\ LET r == ReconstructOneFp(fs, env, abspath(env.root),
                                 recon.records[recon.i].rel_path,
                                 recon.records[recon.i].content)
       IN  /\ fs' = r.st
           /\ attempts' = attempts + r.calls
           /\ recon' = [recon EXCEPT !.i = @ + 1,
                                     !.created = @ + r.created,
                                     !.error = @ + r.error]
    /\ UNCHANGED <<doc, impl, env>>
    /\ UNCHANGED codecVars /\ UNCHANGED exclVars /\ UNCHANGED walkVars

\* reconstruct_from_content returns True, created_count, error_count
ReconFpEnd ==
    /\ impl = "fp"
    /\ recon.pc = "loop"
    /\ recon.i > Len(recon.records)
    /\ recon' = [recon EXCEPT !.pc = "done", !.success = TRUE]
    /\ UNCHANGED <<doc, impl, env, fs, attempts>>
    /\ UNCHANGED codecVars /\ UNCHANGED exclVars /\ UNCHANGED walkVars

\* main.py _run_reconstruction: a request while a worker runs is turned down,
\* else the worker is started on self.file_data and the progress dialog opens
ReconMainBegin ==
    /\ impl = "main"
    /\ ~worker.progress_dialog
    /\ IF WorkerIsRunning
       THEN /\ worker.rejected < MaxRejected
            /\ worker' = [worker EXCEPT !.rejected = @ + 1]
            /\ UNCHANGED recon
       ELSE /\ recon.pc = "idle"
            /\ worker.signal = "none"
            /\ worker.started < MaxStarts
            /\ file_data # <<>>
            /\ recon' = [IdleRecon EXCEPT !.pc = "loop", !.records = file_data, !.i = 1]
            /\ worker' = StartWorker(worker)
    /\ UNCHANGED <<doc, impl, env, fs, attempts>>
    /\ UNCHANGED codecVars /\ UNCHANGED exclVars /\ UNCHANGED <<tree, walk>>

\* one iteration of the loop of _task_reconstruction; an exception the loop
\* does not handle leaves the task for the handler of Worker.run
ReconMainStep ==
    /\ impl = "main"
    /\ recon.pc = "loop"
    /\ recon.i <= Len(recon.records)
    /\ ~worker.is_cancelled
    /\ LET r == ReconstructOneMain(fs, env, env.root, recon.records[recon.i])
       IN  /\ fs' = r.st
           /\ attempts' = attempts + r.calls
           /\ recon' = IF r.raised
                       THEN [recon EXCEPT !.pc = "raised"]
                       ELSE [recon EXCEPT !.i = @ + 1,
                                          !.created = @ + r.created,
                                          !.error = @ + r.error,
                                          !.invalid_path = @ + r.invalid_path]
           /\ worker' = IF r.raised
                        THEN [worker EXCEPT !.outcome = "raised"]
                        ELSE worker
    /\ UNCHANGED <<doc, impl, env>>
    /\ UNCHANGED codecVars /\ UNCHANGED exclVars /\ UNCHANGED <<tree, walk>>

\* _on_reconstruction_finished, the slot of the finished signal of a
\* reconstruction: it closes the progress dialog and shows the statistics
ReconMainEnd ==
    /\ impl = "main"
    /\ recon.pc = "returned"
    /\ worker.signal = "finished"
    /\ recon' = [recon EXCEPT !.pc = "done", !.success = TRUE]
    /\ worker' = [worker EXCEPT !.signal = "none", !.progress_dialog = FALSE]
    /\ UNCHANGED <<doc, impl, env, fs, attempts>>
    /\ UNCHANGED codecVars /\ UNCHANGED exclVars /\ UNCHANGED <<tree, walk>>

\* _task_reconstruction returns its statistics: the loop is exhausted, or it
\* found is_cancelled set and broke
ReconMainReturn ==
    /\ impl = "main"
    /\ recon.pc = "loop"
    /\ recon.i > Len(recon.records) \/ worker.is_cancelled
    /\ recon' = [recon EXCEPT !.pc = "returned"]
    /\ worker' = [worker EXCEPT !.outcome = IF recon.i > Len(recon.records)
                                            THEN "complete" ELSE "partial"]
    /\ UNCHANGED <<doc, impl, env, fs, attempts>>
    /\ UNCHANGED codecVars /\ UNCHANGED exclVars /\ UNCHANGED <<tree, walk>>

\* main.py _on_task_error, the slot of the error signal
OnTaskError ==
    /\ impl = "main"
    /\ recon.pc = "raised"
    /\ worker.signal = "error"
    /\ recon' = [recon EXCEPT !.pc = "failed"]
    /\ worker' = [worker EXCEPT !.signal = "none", !.progress_dialog = FALSE]
    /\ UNCHANGED <<doc, impl, env, fs, attempts>>
    /\ UNCHANGED codecVars /\ UNCHANGED exclVars /\ UNCHANGED <<tree, walk>>

\* main.py Worker.run after the task function: the signal is emitted or not,
\* and the thread ends.  A signal goes to the queue of the main thread; a
\* Worker that emits nothing leaves its task cancelled.
WorkerRun ==
    /\ impl = "main"
    /\ worker.running > 0
    /\ worker.outcome # "none"
    /\ worker.signal = "none"
    /\ \/ walk.pc = "returned"
       \/ recon.pc \in {"returned", "raised"}
    /\ LET w == Run(worker)
       IN  /\ worker' = [w EXCEPT !.running = @ - 1]
           /\ walk' = IF walk.pc = "returned" /\ w.signal = "none"
                       THEN [walk EXCEPT !.pc = "cancelled"] ELSE walk
           /\ recon' = IF recon.pc \in {"returned", "raised"} /\ w.signal = "none"
                        THEN [recon EXCEPT !.pc = "cancelled"] ELSE recon
    /\ UNCHANGED <<doc, impl, env, fs, attempts, tree>>
    /\ UNCHANGED codecVars /\ UNCHANGED exclVars

\* main.py _cancel_task, the slot of the progress dialog's cancel button
CancelTask ==
    /\ impl = "main"
    /\ worker.progress_dialog
    /\ worker' = [worker EXCEPT !.is_cancelled = TRUE, !.progress_dialog = FALSE]
    /\ UNCHANGED codecVars /\ UNCHANGED reconVars /\ UNCHANGED exclVars
    /\ UNCHANGED <<tree, walk>>

-----------------------------------------------------------------------------
(* Specification of a reconstruction: a document is loaded, then one of    *)
(* the two programs rebuilds the tree below the output root.               *)

InitRecon ==
    /\ file_data = <<>>
    /\ text_area = <<>>
    /\ origin = <<>>
    /\ origin_text = <<>>
    /\ stage = "empty"
    /\ doc = <<>>
    /\ impl \in {"fp", "main"}
    /\ env \in Envs
    /\ fs = InitFs(env)
    /\ attempts = 0
    /\ recon = IdleRecon
    /\ rules = NoRules
    /\ cand = <<>>
    /\ verdict = NoVerdict
    /\ tree = NoTree
    /\ walk = IdleWalk
    /\ worker = IdleWorker
    /\ config = NoConfig
    /\ gui = NoGui

NextRecon ==
    \/ LoadText(ReconDocs)
    \/ ParseTextToTree
    \/ ReconFpBegin
    \/ ReconFpStep
    \/ ReconFpEnd
    \/ ReconMainBegin
    \/ ReconMainStep
    \/ ReconMainReturn
    \/ WorkerRun
    \/ ReconMainEnd
    \/ OnTaskError

SpecRecon == InitRecon /\ [][NextRecon]_vars

-----------------------------------------------------------------------------
(* Claims about a reconstruction (SpecRecon)                               *)

\* p lies below directory d
IsBelow(p, d) == StartsWith(p, d \o Slash) /\ Len(p) > Len(d) + 1

\* C1: every file that reconstruct creates or overwrites is a descendant of the
\* output root, whatever the record paths of the document are.
C1_WritesStayBelowRoot ==
    \A p \in DOMAIN fs.files : IsBelow(p, env.root)

UnsafeComments == {P_escape, P_abs, P_drive}

DocPaths == {doc[k].rel_path : k \in 1..Len(doc)}

\* C2: when every block of the document is commented with ../escape.py,
\* /abs/path.py or C:/abs/path.py and the output root is usable, a finished
\* reconstruct has written no file and counts each of those paths as an error.
C2_UnsafeBlocksReportedAsErrors ==
    (/\ recon.pc = "done"
     /\ env.root_exists
     /\ doc # <<>>
     /\ DocPaths \subseteq UnsafeComments)
    => (/\ DOMAIN fs.files = {}
        /\ recon.error + recon.invalid_path >= Cardinality(DocPaths))

\* a relative_path as the data model wants it: slash-normalized, not absolute,
\* without a ".." segment
SafeRelPath(p) ==
    /\ ~isabs(p)
    /\ "\\" \notin SeqToSet(p)
    /\ <<".", ".">> \notin SeqToSet(SplitSet(p, {"/"}))

\* C3: every record that a parse produces (the FileInfo list of main.py, the
\* files_dict of file_processor.py) has a safe relative path.
C3_ParsedPathsAreSafe ==
    /\ \A k \in 1..Len(file_data) : SafeRelPath(file_data[k].rel_path)
    /\ \A k \in 1..Len(recon.records) : SafeRelPath(recon.records[k].rel_path)

\* the last block of the loaded document that is commented with path p
LastBlockFor(p) == doc[Max({j \in 1..Len(doc) : doc[j].rel_path = p})]

UniquePaths(recs) ==
    \A j, k \in 1..Len(recs) : recs[j].rel_path = recs[k].rel_path => j = k

\* C6: last occurrence wins.  After a parse the collection holds one record per
\* path, and its content and language are those of the last block of the
\* document commented with that path (file_processor.py keeps the block with
\* its path line as the content).
C6_LastOccurrenceWins ==
    /\ stage = "parsed" =>
         /\ UniquePaths(file_data)
         /\ {file_data[k].rel_path : k \in 1..Len(file_data)} = DocPaths
         /\ \A k \in 1..Len(file_data) :
              /\ file_data[k].content = LastBlockFor(file_data[k].rel_path).content
              /\ file_data[k].language = LastBlockFor(file_data[k].rel_path).language
    /\ (impl = "fp" /\ recon.pc = "loop") =>
         /\ UniquePaths(recon.records)
         /\ \A k \in 1..Len(recon.records) :
              /\ recon.records[k].rel_path \in DocPaths
              /\ recon.records[k].content =
                    <<"#", " ">> \o recon.records[k].rel_path \o <<"\n">>
                       \o LastBlockFor(recon.records[k].rel_path).content

\* C6 witness: a document with two blocks for one path and different content has
\* been parsed into a single record
C6_Witness ==
    /\ Len(doc) = 2
    /\ doc[1].rel_path = doc[2].rel_path
    /\ doc[1].content # doc[2].content
    /\ \/ stage = "parsed" /\ Len(file_data) = 1
       \/ impl = "fp" /\ recon.pc = "loop" /\ Len(recon.records) = 1

\* C10: when the output root does not exist and cannot be created, a finished
\* reconstruct reports failure with zero counts and has issued no makedirs or
\* open for any record.  (For main.py, success stands for the finished handler
\* taking the returned stats as a completed reconstruction.)
C10_UnusableRootIsFatal ==
    (/\ recon.pc = "done"
     /\ ~env.root_exists
     /\ env.root \in env.bad_dirs)
    => (/\ ~recon.success
        /\ recon.created = 0
        /\ recon.error = 0
        /\ attempts = 0)

-----------------------------------------------------------------------------
(* The text codec of main.py: serialize and parse (SpecCodec)              *)

MaxRecords == 2

\* entries of DEFAULT_SUFFIX_MAP, one per comment style, with a path whose
\* suffix selects the entry
CodecStyles ==
    { [rel_path |-> <<"s","r","c","/","m","a","i","n",".","p","y">>,
       language |-> <<"p","y","t","h","o","n">>, comment_symbol |-> <<"#">>],
      [rel_path |-> <<"a",".","p","y">>,
       language |-> <<"p","y","t","h","o","n">>, comment_symbol |-> <<"#">>],
      [rel_path |-> <<"a",".","j","s">>,
       language |-> <<"j","a","v","a","s","c","r","i","p","t">>,
       comment_symbol |-> <<"/","/">>],
      [rel_path |-> <<"i",".","h","t","m","l">>,
       language |-> <<"h","t","m","l">>, comment_symbol |-> <<"<","!","-","-">>],
      [rel_path |-> <<"s",".","c","s","s">>,
       language |-> <<"c","s","s">>, comment_symbol |-> <<"/","*">>],
      [rel_path |-> <<"d",".","j","s","o","n">>,
       language |-> <<"j","s","o","n">>, comment_symbol |-> <<>>],
      [rel_path |-> <<"c",".","i","n","i">>,
       language |-> <<"i","n","i">>, comment_symbol |-> <<";">>] }

\* file contents: a bare line, and a line with surrounding white space
CodecContents == { <<"x">>, <<" ", "x", "\n">> }

CodecRecords ==
    { FileInfo(st.rel_path, c, st.language, st.comment_symbol) :
        st \in CodecStyles, c \in CodecContents }

\* the collections a pack can install: unique paths, at most MaxRecords records
CodecCollections ==
    { rs \in SeqsUpTo(CodecRecords, MaxRecords) : rs # <<>> /\ UniquePaths(rs) }

\* main.py _on_extraction_finished: install the records, refresh tree and text
ExtractionFinished(RS) ==
    /\ recon.pc = "idle"
    /\ walk.pc \in {"idle", "returned"}
    /\ \E rs \in RS :
         /\ file_data' = rs
         /\ text_area' = regenerate_combined_text(rs)
         /\ origin' = rs
         /\ origin_text' = regenerate_combined_text(rs)
    /\ stage' = "serialized"
    /\ doc' = <<>>
    /\ walk' = IF walk.pc = "returned" THEN [walk EXCEPT !.pc = "done"] ELSE walk
    /\ worker' = IF walk.pc = "returned"
                 THEN [worker EXCEPT !.signal = "none", !.progress_dialog = FALSE]
                 ELSE worker
    /\ UNCHANGED tree
    /\ UNCHANGED <<impl, env, fs, attempts, recon>>
    /\ UNCHANGED exclVars

\* the orders a drag and drop can leave the tree in
Reorderings(recs) ==
    { [k \in 1..Len(recs) |-> recs[f[k]]] :
        f \in { g \in [1..Len(recs) -> 1..Len(recs)] :
                  \A a, b \in 1..Len(recs) : g[a] = g[b] => a = b } }

\* the top-level items a drop onto an item leaves: the tree is in InternalMove
\* mode and its items keep the default flags, ItemIsDropEnabled among them, so
\* the dragged items become children of the item they are dropped on
DropOnItem(recs) ==
    { SelectSeq(recs, LAMBDA r : r \notin moved) :
        moved \in {m \in SUBSET SeqToSet(recs) : m # {} /\ m # SeqToSet(recs)} }

\* main.py _on_file_order_changed: adopt the order of the top-level items of the
\* tree, regenerate the text
FileOrderChanged ==
    /\ recon.pc = "idle"
    /\ Len(file_data) >= 2
    /\ \E rs \in Reorderings(file_data) \cup DropOnItem(file_data) :
         /\ rs # file_data
         /\ file_data' = rs
         /\ text_area' = regenerate_combined_text(rs)
         /\ origin' = rs
         /\ origin_text' = regenerate_combined_text(rs)
    /\ stage' = "serialized"
    /\ doc' = <<>>
    /\ UNCHANGED <<impl, env, fs, attempts, recon>>
    /\ UNCHANGED exclVars /\ UNCHANGED walkVars

\* main.py _clear_all, confirmed by the user
ClearAll ==
    /\ recon.pc = "idle"
    /\ stage # "empty"
    /\ file_data' = <<>>
    /\ text_area' = regenerate_combined_text(<<>>)
    /\ origin' = <<>>
    /\ origin_text' = <<>>
    /\ stage' = "empty"
    /\ doc' = <<>>
    /\ UNCHANGED <<impl, env, fs, attempts, recon>>
    /\ UNCHANGED exclVars /\ UNCHANGED walkVars

InitCodec ==
    /\ file_data = <<>>
    /\ text_area = <<>>
    /\ origin = <<>>
    /\ origin_text = <<>>
    /\ stage = "empty"
    /\ doc = <<>>
    /\ impl = "main"
    /\ env = [root |-> OutputRoot, root_exists |-> TRUE, bad_dirs |-> {}, bad_files |-> {}]
    /\ fs = InitFs(env)
    /\ attempts = 0
    /\ recon = IdleRecon
    /\ rules = NoRules
    /\ cand = <<>>
    /\ verdict = NoVerdict
    /\ tree = NoTree
    /\ walk = IdleWalk
    /\ worker = IdleWorker
    /\ config = NoConfig
    /\ gui = NoGui

NextCodec ==
    \/ ExtractionFinished(CodecCollections)
    \/ ParseTextToTree
    \/ FileOrderChanged
    \/ ClearAll

SpecCodec == InitCodec /\ [][NextCodec]_vars

\* the set of (path, content, language) of a collection
Triples(recs) ==
    { <<recs[k].rel_path, recs[k].content, recs[k].language>> : k \in 1..Len(recs) }

\* C4: round trip.  Parsing the text serialized from a collection with unique,
\* safe paths yields the same set of paths and, for each path, the same content
\* and the same language.
C4_RoundTrip ==
    stage = "reparsed" => Triples(file_data) = Triples(origin)

\* C5: idempotence.  Serializing, parsing and serializing again gives text
\* identical to the first serialization.
C5_Idempotent ==
    stage = "reparsed" => text_area = origin_text

-----------------------------------------------------------------------------
(* Exclusion rules                                                         *)

UpperChars ==
    {"A","B","C","D","E","F","G","H","I","J","K","L","M",
     "N","O","P","Q","R","S","T","U","V","W","X","Y","Z"}

LowerOf ==
    [c \in UpperChars |->
       CASE c = "A" -> "a" [] c = "B" -> "b" [] c = "C" -> "c" [] c = "D" -> "d"
         [] c = "E" -> "e" [] c = "F" -> "f" [] c = "G" -> "g" [] c = "H" -> "h"
         [] c = "I" -> "i" [] c = "J" -> "j" [] c = "K" -> "k" [] c = "L" -> "l"
         [] c = "M" -> "m" [] c = "N" -> "n" [] c = "O" -> "o" [] c = "P" -> "p"
         [] c = "Q" -> "q" [] c = "R" -> "r" [] c = "S" -> "s" [] c = "T" -> "t"
         [] c = "U" -> "u" [] c = "V" -> "v" [] c = "W" -> "w" [] c = "X" -> "x"
         [] c = "Y" -> "y" [] c = "Z" -> "z"]

\* str.lower()
lower(s) == [k \in 1..Len(s) |-> IF s[k] \in UpperChars THEN LowerOf[s[k]] ELSE s[k]]

\* os.path.splitext(p)[1]
splitext_ext(p) ==
    LET sepIndex == Max({k \in 0..Len(p) : k = 0 \/ p[k] = "/"})
        dotIndex == Max({k \in 0..Len(p) : k = 0 \/ p[k] = "."})
    IN  IF dotIndex > sepIndex /\ \E k \in (sepIndex + 1)..(dotIndex - 1) : p[k] # "."
        THEN Drop(p, dotIndex - 1)
        ELSE <<>>

\* os.path.relpath(path, start) for absolute paths
relpath(path, start) ==
    LET start_list == Comps(Resolve(start))
        path_list  == Comps(Resolve(path))
        i == Max({k \in 0..Min({Len(start_list), Len(path_list)}) :
                    \A j \in 1..k : start_list[j] = path_list[j]})
        rel_list == [k \in 1..(Len(start_list) - i) |-> <<".", ".">>] \o Drop(path_list, i)
    IN  IF rel_list = <<>> THEN <<".">> ELSE Join(rel_list, Slash)

\* os.path.isdir
isdir(st, p) == Resolve(p) \in st.dirs

\* --- main.py: glob patterns with negation

IsRuleLine(line) == line # <<>> /\ line[1] # "#"

\* main.py _parse_exclusions
parse_exclusions_main(exclude_str) ==
    LET lines == SplitSet(exclude_str, {",", "\n"})
    IN  SelectSeq([k \in 1..Len(lines) |-> Strip(lines[k])], IsRuleLine)

\* fnmatch.fnmatchcase for patterns of literals, '*' and '?' (no '[' in the
\* model's patterns); on POSIX fnmatch.fnmatch is fnmatchcase
RECURSIVE FnMatchAt(_, _, _, _)
FnMatchAt(name, i, pat, j) ==
    IF j > Len(pat) THEN i > Len(name)
    ELSE IF pat[j] = "*"
    THEN \E k \in i..(Len(name) + 1) : FnMatchAt(name, k, pat, j + 1)
    ELSE /\ i <= Len(name)
         /\ (pat[j] = "?" \/ pat[j] = name[i])
         /\ FnMatchAt(name, i + 1, pat, j + 1)

fnmatch(name, pat) == FnMatchAt(name, 1, pat, 1)

\* the head of the loop body of _is_excluded: the rule a supplied pattern stands for
RuleOf(raw) ==
    LET negate == StartsWith(raw, <<"!">>)
        p1 == IF negate THEN Drop(raw, 1) ELSE raw
        is_dir_pattern == EndsWith(p1, Slash)
    IN  [negate |-> negate,
         is_dir_pattern |-> is_dir_pattern,
         pattern |-> IF is_dir_pattern THEN RStripSet(p1, {"/"}) ELSE p1]

\* the match test of the loop body
RuleMatches(raw, rel_path, is_dir) ==
    LET r == RuleOf(raw)
    IN  /\ ~(r.is_dir_pattern /\ ~is_dir)
        /\ IF "/" \notin SeqToSet(r.pattern)
           THEN fnmatch(basename(rel_path), r.pattern)
           ELSE fnmatch(rel_path, r.pattern)

\* a variant of the loop body in which a matching negation excludes as well
ExclStepNegationIgnored(excluded, raw, rel_path, is_dir) ==
    IF RuleMatches(raw, rel_path, is_dir) THEN TRUE ELSE excluded

\* one iteration of the loop of _is_excluded
ExclStep(excluded, raw, rel_path, is_dir) ==
    IF RuleMatches(raw, rel_path, is_dir) THEN ~RuleOf(raw).negate ELSE excluded

RECURSIVE ExclLoop(_, _, _, _)
ExclLoop(excluded, patterns, rel_path, is_dir) ==
    IF patterns = <<>> THEN excluded
    ELSE ExclLoop(ExclStep(excluded, Head(patterns), rel_path, is_dir),
                  Tail(patterns), rel_path, is_dir)

\* main.py _is_excluded(path, root, patterns) on file system st
is_excluded_main(st, path, root, patterns) ==
    ExclLoop(FALSE, patterns, relpath(path, root), isdir(st, path))

\* --- file_processor.py: names, paths and suffixes

\* the classification of one item in parse_exclusions
ItemIsSuffix(item) ==
    \/ StartsWith(item, <<"*", ".">>)
    \/ StartsWith(item, <<".">>) /\ Len(item) > 1 /\ "." \notin SeqToSet(Drop(item, 1))

ItemSuffix(item) ==
    IF StartsWith(item, <<"*", ".">>) THEN lower(Drop(item, 2)) ELSE lower(Drop(item, 1))

\* file_processor.py parse_exclusions
parse_exclusions(exclude_str) ==
    LET parts == SplitSet(exclude_str, {","})
        items == {Strip(parts[k]) : k \in 1..Len(parts)} \ {<<>>}
    IN  [excluded_patterns |-> {item \in items : ~ItemIsSuffix(item)},
         excluded_suffixes_no_dot |->
             {ItemSuffix(item) : item \in {it \in items : ItemIsSuffix(it)}} \ {<<>>}]

\* a test of one pattern in which a directory pattern X/ matches a directory
\* named X at any depth, and what lies below it
PatternExcludesAnyDepth(pattern, rel_path, base) ==
    IF EndsWith(pattern, Slash)
    THEN Contains(Slash \o rel_path \o Slash, Slash \o pattern)
    ELSE pattern = base \/ pattern = rel_path

\* the test of one pattern in the loop of is_excluded
PatternExcludes(pattern, rel_path, base) ==
    IF EndsWith(pattern, Slash)
    THEN \/ rel_path = StripSet(ReplaceChar(pattern, "/", "/"), {"/"})
         \/ StartsWith(rel_path, ReplaceChar(pattern, "/", "/"))
         \/ pattern = <<".", "g", "i", "t", "/">> /\ base = <<".", "g", "i", "t">>
    ELSE pattern = base \/ pattern = rel_path

\* file_processor.py is_excluded: TRUE iff a reason is returned
is_excluded(file_or_dir_path, source_root, excluded_patterns, excluded_suffixes_no_dot) ==
    LET rel_path == relpath(file_or_dir_path, source_root)
        base == basename(file_or_dir_path)
        suffix_no_dot == LStripSet(lower(splitext_ext(base)), {"."})
    IN  \/ \E pattern \in excluded_patterns : PatternExcludes(pattern, rel_path, base)
        \/ suffix_no_dot \in excluded_suffixes_no_dot

-----------------------------------------------------------------------------
(* Exclusion verdicts on the paths of a source tree (SpecExcl)             *)

MaxRules == 2

SourceRoot == <<"/", "p">>

\* the rules a user types into the exclusion field
RuleAtoms ==
    { <<"*",".","l","o","g">>,
      <<"!","i","m","p","o","r","t","a","n","t",".","l","o","g">>,
      <<"b","u","i","l","d","/">>,
      <<"!","b","u","i","l","d","/">>,
      <<"s","r","c","/","*",".","l","o","g">>,
      <<"#","c">> }

\* exclusion texts: up to MaxRules rules, separated by commas or by newlines
ExcludeTexts ==
    {<<>>}
    \cup {Join(rs, <<",">>) : rs \in SeqsUpTo(RuleAtoms, MaxRules)}
    \cup {Join(rs, <<"\n">>) : rs \in SeqsUpTo(RuleAtoms, MaxRules)}

ExclTree ==
    Tree(<<"/","p">>,
         (<<"/","p">> :> [dirs |-> <<<<"s","r","c">>, <<"b","u","i","l","d">>>>, files |-> <<<<"i","m","p","o","r","t","a","n","t",".","l","o","g">>, <<"o","t","h","e","r",".","l","o","g">>, <<"a",".","t","x","t">>>>]) @@
          (<<"/","p","/","s","r","c">> :> [dirs |-> <<<<"b","u","i","l","d">>>>, files |-> <<<<"o","t","h","e","r",".","l","o","g">>, <<"i","m","p","o","r","t","a","n","t",".","l","o","g">>>>]) @@
          (<<"/","p","/","s","r","c","/","b","u","i","l","d">> :> [dirs |-> <<>>, files |-> <<>>]) @@
          (<<"/","p","/","b","u","i","l","d">> :> [dirs |-> <<>>, files |-> <<<<"x",".","p","y">>>>]),
         (<<"/","p","/","i","m","p","o","r","t","a","n","t",".","l","o","g">> :> <<"x">>) @@
          (<<"/","p","/","o","t","h","e","r",".","l","o","g">> :> <<"x">>) @@
          (<<"/","p","/","a",".","t","x","t">> :> <<"x">>) @@
          (<<"/","p","/","b","u","i","l","d","/","x",".","p","y">> :> <<"x">>) @@
          (<<"/","p","/","s","r","c","/","o","t","h","e","r",".","l","o","g">> :> <<"x">>) @@
          (<<"/","p","/","s","r","c","/","i","m","p","o","r","t","a","n","t",".","l","o","g">> :> <<"x">>),
         {})

\* the paths below the root of a tree
PathsBelow(t) == {x \in t.dirs \cup DOMAIN t.files : IsBelow(x, t.root)}

\* both parsers applied to the text of the exclusion field
ParseRules(exclude_str) ==
    [text |-> exclude_str,
     patterns |-> parse_exclusions_main(exclude_str),
     excluded_patterns |-> parse_exclusions(exclude_str).excluded_patterns,
     excluded_suffixes_no_dot |-> parse_exclusions(exclude_str).excluded_suffixes_no_dot]

\* the user edits the exclusion field; the next pack parses it
SetExclusions(X) ==
    /\ walk.pc = "idle"
    /\ recon.pc = "idle"
    /\ \E t \in X : t # rules.text /\ rules' = ParseRules(t)
    /\ cand' = <<>>
    /\ verdict' = NoVerdict
    /\ UNCHANGED <<config, gui>>
    /\ UNCHANGED codecVars /\ UNCHANGED reconVars /\ UNCHANGED walkVars

\* one call of _is_excluded (main.py) and of is_excluded (file_processor.py)
CheckPath ==
    /\ walk.pc = "idle"
    /\ recon.pc = "idle"
    /\ \E c \in PathsBelow(tree) :
         /\ cand' = c
         /\ verdict' =
              [glob |-> is_excluded_main(tree, c, tree.root, rules.patterns),
               simple |-> is_excluded(c, tree.root, rules.excluded_patterns,
                                      rules.excluded_suffixes_no_dot)]
    /\ UNCHANGED <<rules, config, gui>>
    /\ UNCHANGED codecVars /\ UNCHANGED reconVars /\ UNCHANGED walkVars

InitExcl ==
    /\ file_data = <<>>
    /\ text_area = <<>>
    /\ origin = <<>>
    /\ origin_text = <<>>
    /\ stage = "empty"
    /\ doc = <<>>
    /\ impl = "main"
    /\ env = [root |-> OutputRoot, root_exists |-> TRUE, bad_dirs |-> {}, bad_files |-> {}]
    /\ fs = InitFs(env)
    /\ attempts = 0
    /\ recon = IdleRecon
    /\ rules = NoRules
    /\ cand = <<>>
    /\ verdict = NoVerdict
    /\ tree = ExclTree
    /\ walk = IdleWalk
    /\ worker = IdleWorker
    /\ config = NoConfig
    /\ gui = NoGui

NextExcl ==
    \/ SetExclusions(ExcludeTexts)
    \/ CheckPath

SpecExcl == InitExcl /\ [][NextExcl]_vars

\* the rules, by position, that match the checked path
MatchingRules ==
    {k \in 1..Len(rules.patterns) :
        RuleMatches(rules.patterns[k], relpath(cand, tree.root), isdir(tree, cand))}

\* C7: in the glob/negation strategy the verdict for a path is that of the last
\* rule, in the supplied order, that matches it: excluded iff there is such a
\* rule and it is not a negation.  With *.log then !important.log,
\* important.log is not excluded and other.log is.
C7_LastMatchingRuleDecides ==
    cand # <<>> =>
      /\ verdict.glob =
            (/\ MatchingRules # {}
             /\ ~StartsWith(rules.patterns[Max(MatchingRules)], <<"!">>))
      /\ rules.patterns = <<<<"*",".","l","o","g">>, <<"!","i","m","p","o","r","t","a","n","t",".","l","o","g">>>> =>
            /\ cand = <<"/","p","/","i","m","p","o","r","t","a","n","t",".","l","o","g">> => ~verdict.glob
            /\ cand = <<"/","p","/","o","t","h","e","r",".","l","o","g">> => verdict.glob
            /\ cand = <<"/","p","/","a",".","t","x","t">> => ~verdict.glob

\* C7 witness: important.log checked against *.log followed by !important.log
C7_Witness ==
    /\ rules.patterns = <<<<"*",".","l","o","g">>, <<"!","i","m","p","o","r","t","a","n","t",".","l","o","g">>>>
    /\ cand = <<"/","p","/","i","m","p","o","r","t","a","n","t",".","l","o","g">>
    /\ MatchingRules = {1, 2}
    /\ ~verdict.glob

-----------------------------------------------------------------------------
(* Pack: the walk over the source tree                                     *)

\* the suffix map of the configuration (entries of DEFAULT_SUFFIX_MAP)
SuffixMap ==
    (<<".","p","y">> :> [language |-> <<"p","y","t","h","o","n">>, comment |-> <<"#">>]) @@
    (<<".","t","x","t">> :> [language |-> <<"t","e","x","t">>, comment |-> <<"#">>]) @@
    (<<".","m","d">> :> [language |-> <<"m","a","r","k","d","o","w","n">>, comment |-> <<>>])

\* [os.path.join(root, name) for name in names]
JoinAll(root, names) == [k \in 1..Len(names) |-> join2(root, names[k])]

\* --- main.py

\* main.py _gather_source_files: the os.walk loop, pending is the stack of
\* directories still to visit
RECURSIVE GatherWalk(_, _, _, _)
GatherWalk(t, patterns, pending, filepaths) ==
    IF pending = <<>> THEN filepaths
    ELSE LET root == Head(pending)
             dirs == SelectSeq(JoinAll(root, t.listing[root].dirs),
                               LAMBDA d : ~is_excluded_main(t, d, t.root, patterns))
             found == SelectSeq(JoinAll(root, t.listing[root].files),
                                LAMBDA f : ~is_excluded_main(t, f, t.root, patterns))
         IN  GatherWalk(t, patterns, dirs \o Tail(pending), filepaths \o found)

gather_source_files(t, exclude_patterns) ==
    GatherWalk(t, exclude_patterns, <<t.root>>, <<>>)

\* one iteration of the loop of _task_extraction on file fpath
TaskExtractionOne(w, t, fpath) ==
    LET suffix == lower(splitext_ext(fpath))
    IN  IF suffix \notin w.selected_suffixes
        THEN [w EXCEPT !.skipped_type = @ + 1]
        ELSE IF suffix \notin DOMAIN SuffixMap
        THEN w
        ELSE IF fpath \in t.unreadable
        THEN [w EXCEPT !.error = @ + 1, !.opened = @ \cup {fpath}]
        ELSE LET rel_path == ReplaceChar(relpath(fpath, t.root), "/", "/")
             IN  [w EXCEPT !.new_file_data =
                                Append(@, FileInfo(rel_path, t.files[fpath],
                                                   SuffixMap[suffix].language,
                                                   SuffixMap[suffix].comment)),
                           !.extracted = @ + 1,
                           !.opened = @ \cup {fpath},
                           !.merged = Append(@, rel_path)]

\* --- file_processor.py

\* the block combine_files builds for one file
CombineBlock(lang, rel_path, content) ==
    LET first_line == IF content # <<>> THEN Strip(FirstLine(content)) ELSE <<>>
        match == FIRST_LINE_PATH_COMMENT_PATTERN(first_line)
        add_path_comment ==
            ~(match.ok /\ ReplaceChar(Strip(match.g1), "\\", "/") = rel_path)
    IN  Fence \o lang \o <<"\n">>
        \o (IF add_path_comment THEN <<"#", " ">> \o rel_path \o <<"\n">> ELSE <<>>)
        \o content
        \o (IF EndsWith(content, <<"\n">>) THEN <<>> ELSE <<"\n">>)
        \o Fence \o <<"\n", "\n">>

\* the body of the file loop of combine_files
CombineOne(w, t, R, fpath) ==
    LET filename == basename(fpath)
        rel_path == ReplaceChar(relpath(fpath, t.root), "/", "/")
        suffix_lower == lower(splitext_ext(filename))
        skip == \/ is_excluded(fpath, t.root, R.excluded_patterns,
                               R.excluded_suffixes_no_dot)
                \/ suffix_lower \notin DOMAIN SuffixMap
                \/ suffix_lower \notin w.selected_suffixes
    IN  IF skip
        THEN [w EXCEPT !.skipped_count = @ + 1]
        ELSE IF fpath \in t.unreadable
        THEN [w EXCEPT !.error_count = @ + 1, !.skipped_count = @ + 1,
                       !.opened = @ \cup {fpath}]
        ELSE [w EXCEPT !.combined = @ \o CombineBlock(SuffixMap[suffix_lower].language,
                                                      rel_path, t.files[fpath]),
                       !.file_count = @ + 1,
                       !.opened = @ \cup {fpath},
                       !.merged = Append(@, rel_path)]

\* a file loop that a read failure ends: the files after the failing one are
\* left out (what the handler of lines 456-459 prevents)
RECURSIVE CombineFilesOfAbortOnError(_, _, _, _)
CombineFilesOfAbortOnError(w, t, R, fpaths) ==
    IF fpaths = <<>> THEN w
    ELSE LET w1 == CombineOne(w, t, R, Head(fpaths))
         IN  IF w1.error_count > w.error_count THEN w1
             ELSE CombineFilesOfAbortOnError(w1, t, R, Tail(fpaths))

RECURSIVE CombineFilesOf(_, _, _, _)
CombineFilesOf(w, t, R, fpaths) ==
    IF fpaths = <<>> THEN w
    ELSE CombineFilesOf(CombineOne(w, t, R, Head(fpaths)), t, R, Tail(fpaths))

\* the processing walk of combine_files, pending is the stack of directories
\* os.walk still has to visit
RECURSIVE CombineWalk(_, _, _, _)
CombineWalk(w, t, R, pending) ==
    IF pending = <<>> THEN w
    ELSE LET root == Head(pending)
             l == t.listing[root]
             original_dirs == JoinAll(root, l.dirs)
             dirs == SelectSeq(original_dirs,
                               LAMBDA d : ~is_excluded(d, t.root, R.excluded_patterns,
                                                       R.excluded_suffixes_no_dot))
         IN  IF is_excluded(root, t.root, R.excluded_patterns, R.excluded_suffixes_no_dot)
             THEN CombineWalk([w EXCEPT !.skipped_count =
                                           @ + 1 + Len(l.dirs) + Len(l.files)],
                              t, R, Tail(pending))
             ELSE CombineWalk(
                      CombineFilesOf(
                          [w EXCEPT !.skipped_count = @ + Len(original_dirs) - Len(dirs)],
                          t, R, JoinAll(root, l.files)),
                      t, R, dirs \o Tail(pending))

\* file_processor.py combine_files, without a cancellation
combine_files(w, t, R) ==
    CombineWalk([IdleWalk EXCEPT !.selected_suffixes = w.selected_suffixes],
                t, R, <<t.root>>)

-----------------------------------------------------------------------------
(* Pack, parse and reconstruct (SpecPack)                                  *)

\* the tree of the end-to-end scenario: src/main.py holding print(1) and a newline
TreeSrcMain ==
    Tree(<<"/","p">>,
         (<<"/","p">> :> [dirs |-> <<<<"s","r","c">>>>, files |-> <<>>]) @@
          (<<"/","p","/","s","r","c">> :> [dirs |-> <<>>, files |-> <<<<"m","a","i","n",".","p","y">>>>]),
         (<<"/","p","/","s","r","c","/","m","a","i","n",".","p","y">> :> <<"p","r","i","n","t","(","1",")","\n">>),
         {})

\* an excluded directory next to a file
TreeBuild ==
    Tree(<<"/","p">>,
         (<<"/","p">> :> [dirs |-> <<<<"b","u","i","l","d">>>>, files |-> <<<<"a",".","p","y">>>>]) @@
          (<<"/","p","/","b","u","i","l","d">> :> [dirs |-> <<>>, files |-> <<<<"x",".","p","y">>>>]),
         (<<"/","p","/","a",".","p","y">> :> <<"y","\n">>) @@
          (<<"/","p","/","b","u","i","l","d","/","x",".","p","y">> :> <<"x","\n">>),
         {})

\* an excluded directory with a nested directory
TreeBuildDeep ==
    Tree(<<"/","p">>,
         (<<"/","p">> :> [dirs |-> <<<<"b","u","i","l","d">>>>, files |-> <<<<"a",".","p","y">>, <<"n",".","t","x","t">>>>]) @@
          (<<"/","p","/","b","u","i","l","d">> :> [dirs |-> <<<<"d","e","e","p">>>>, files |-> <<>>]) @@
          (<<"/","p","/","b","u","i","l","d","/","d","e","e","p">> :> [dirs |-> <<>>, files |-> <<<<"x",".","p","y">>>>]),
         (<<"/","p","/","a",".","p","y">> :> <<"y","\n">>) @@
          (<<"/","p","/","n",".","t","x","t">> :> <<"t","\n">>) @@
          (<<"/","p","/","b","u","i","l","d","/","d","e","e","p","/","x",".","p","y">> :> <<"x","\n">>),
         {})

\* a file that starts with its own path comment, an unmapped suffix, a suffix
\* without comment symbol
TreeKinds ==
    Tree(<<"/","p">>,
         (<<"/","p">> :> [dirs |-> <<>>, files |-> <<<<"a",".","p","y">>, <<"b",".","l","o","g">>, <<"r",".","m","d">>>>]),
         (<<"/","p","/","a",".","p","y">> :> <<"#"," ","a",".","p","y","\n","x","\n">>) @@
          (<<"/","p","/","b",".","l","o","g">> :> <<"l","\n">>) @@
          (<<"/","p","/","r",".","m","d">> :> <<"m","\n">>),
         {})

\* a file that cannot be read
TreeUnreadable ==
    Tree(<<"/","p">>,
         (<<"/","p">> :> [dirs |-> <<>>, files |-> <<<<"a",".","p","y">>, <<"c",".","p","y">>>>]),
         (<<"/","p","/","a",".","p","y">> :> <<>>) @@
          (<<"/","p","/","c",".","p","y">> :> <<"x","\n">>),
         {<<"/","p","/","a",".","p","y">>})

\* a file that cannot be read, listed before a directory with a file
TreeUnreadableFirst ==
    Tree(<<"/","p">>,
         (<<"/","p">> :> [dirs |-> <<<<"s","r","c">>>>, files |-> <<<<"a",".","p","y">>>>]) @@
          (<<"/","p","/","s","r","c">> :> [dirs |-> <<>>, files |-> <<<<"m","a","i","n",".","p","y">>>>]),
         (<<"/","p","/","a",".","p","y">> :> <<>>) @@
          (<<"/","p","/","s","r","c","/","m","a","i","n",".","p","y">> :> <<"x","\n">>),
         {<<"/","p","/","a",".","p","y">>})

\* a file whose first line is a path comment naming another path
TreeStaleComment ==
    Tree(<<"/","p">>,
         (<<"/","p">> :> [dirs |-> <<>>, files |-> <<<<"a",".","p","y">>>>]),
         (<<"/","p","/","a",".","p","y">> :> <<"#"," ","o",".","p","y","\n","x","\n">>),
         {})

PackTrees ==
    {TreeSrcMain, TreeBuild, TreeBuildDeep, TreeKinds, TreeUnreadable, TreeUnreadableFirst,
     TreeStaleComment}

\* texts of the exclusion field; the last names the source root itself
PackExcludeTexts ==
    { <<>>, <<"b","u","i","l","d","/">>, <<"*",".","l","o","g",","," ","b","u","i","l","d","/">>, <<"b","u","i","l","d">>, <<"p">> }

PackSelections == { {<<".","p","y">>}, {<<".","p","y">>, <<".","t","x","t">>, <<".","m","d">>} }

\* buildGUi.py _combine_files: combine_files runs and its text fills the text area
CombineFiles ==
    /\ impl = "fp"
    /\ walk.pc = "idle"
    /\ recon.pc = "idle"
    /\ walk.selected_suffixes # {}
    /\ isdir(tree, tree.root)
    /\ walk' = [combine_files(walk, tree, rules) EXCEPT !.pc = "done"]
    /\ text_area' = walk'.combined
    /\ origin_text' = walk'.combined
    /\ origin' = <<>>
    /\ stage' = "serialized"
    /\ UNCHANGED <<file_data, tree, worker>>
    /\ UNCHANGED reconVars /\ UNCHANGED exclVars

\* main.py _run_extraction: a request while a worker runs is turned down, else
\* the files are gathered, the worker is started and the progress dialog opens
RunExtraction ==
    /\ impl = "main"
    /\ ~worker.progress_dialog
    /\ IF WorkerIsRunning
       THEN /\ worker.rejected < MaxRejected
            /\ worker' = [worker EXCEPT !.rejected = @ + 1]
            /\ UNCHANGED walk
       ELSE /\ worker.started < MaxStarts
            /\ worker.signal = "none"
            /\ isdir(tree, tree.root)
            /\ walk.selected_suffixes # {}
            /\ walk' = [IdleWalk EXCEPT
                          !.pc = "running",
                          !.selected_suffixes = walk.selected_suffixes,
                          !.all_filepaths = gather_source_files(tree, rules.patterns),
                          !.i = 1]
            /\ worker' = StartWorker(worker)
    /\ UNCHANGED tree
    /\ UNCHANGED codecVars /\ UNCHANGED reconVars /\ UNCHANGED exclVars

\* the worker: one iteration of the loop of _task_extraction
TaskExtractionStep ==
    /\ walk.pc = "running"
    /\ walk.i <= Len(walk.all_filepaths)
    /\ ~worker.is_cancelled
    /\ walk' = [TaskExtractionOne(walk, tree, walk.all_filepaths[walk.i])
                  EXCEPT !.i = @ + 1]
    /\ UNCHANGED <<tree, worker>>
    /\ UNCHANGED codecVars /\ UNCHANGED reconVars /\ UNCHANGED exclVars

\* _on_extraction_finished, the slot of the finished signal of a pack: it
\* installs the result
TaskExtractionFinished ==
    /\ walk.pc = "returned"
    /\ worker.signal = "finished"
    /\ ExtractionFinished({walk.new_file_data})

\* _task_extraction returns new_file_data and stats: the loop is exhausted, or
\* it found is_cancelled set and broke
TaskExtractionReturn ==
    /\ walk.pc = "running"
    /\ walk.i > Len(walk.all_filepaths) \/ worker.is_cancelled
    /\ walk' = [walk EXCEPT !.pc = "returned"]
    /\ worker' = [worker EXCEPT !.outcome = IF walk.i > Len(walk.all_filepaths)
                                            THEN "complete" ELSE "partial"]
    /\ UNCHANGED tree
    /\ UNCHANGED codecVars /\ UNCHANGED reconVars /\ UNCHANGED exclVars

InitPack ==
    /\ file_data = <<>>
    /\ text_area = <<>>
    /\ origin = <<>>
    /\ origin_text = <<>>
    /\ stage = "empty"
    /\ doc = <<>>
    /\ impl \in {"fp", "main"}
    /\ env = [root |-> OutputRoot, root_exists |-> TRUE, bad_dirs |-> {}, bad_files |-> {}]
    /\ fs = InitFs(env)
    /\ attempts = 0
    /\ recon = IdleRecon
    /\ rules \in {ParseRules(t) : t \in PackExcludeTexts}
    /\ cand = <<>>
    /\ verdict = NoVerdict
    /\ tree \in PackTrees
    /\ walk \in {[IdleWalk EXCEPT !.selected_suffixes = sel] : sel \in PackSelections}
    /\ worker = IdleWorker
    /\ config = NoConfig
    /\ gui = NoGui

NextPack ==
    \/ CombineFiles
    \/ RunExtraction
    \/ TaskExtractionStep
    \/ TaskExtractionReturn
    \/ WorkerRun
    \/ TaskExtractionFinished
    \/ ParseTextToTree
    \/ ReconFpBegin
    \/ ReconFpStep
    \/ ReconFpEnd
    \/ ReconMainBegin
    \/ ReconMainStep
    \/ ReconMainReturn
    \/ ReconMainEnd

SpecPack == InitPack /\ [][NextPack]_vars

\* the directories of the source tree that the exclusion rules exclude: the
\* root and everything below it for file_processor.py, which tests every
\* directory it visits; the directories below the root for main.py
ExcludedDirs ==
    {d \in tree.dirs :
        \/ /\ impl = "fp"
           /\ d = tree.root \/ IsBelow(d, tree.root)
           /\ is_excluded(d, tree.root, rules.excluded_patterns,
                          rules.excluded_suffixes_no_dot)
        \/ /\ impl = "main"
           /\ IsBelow(d, tree.root)
           /\ is_excluded_main(tree, d, tree.root, rules.patterns)}

BelowExcluded(x) == \E d \in ExcludedDirs : IsBelow(x, d)

\* the units a pack has to account for: each topmost excluded directory, and
\* each file that is below no excluded directory
TopExcludedDirs == {d \in ExcludedDirs : ~BelowExcluded(d)}
FilesOutsideExcluded ==
    {f \in DOMAIN tree.files : IsBelow(f, tree.root) /\ ~BelowExcluded(f)}

\* C8: directory pruning.  After a pack no file below an excluded directory has
\* been opened or emitted, and the statistics count an excluded directory once
\* and no file below it: combine_files accounts for exactly the topmost
\* excluded directories and the files outside them, main.py for at most the
\* files outside them.
C8_ExcludedSubtreeIsOneUnit ==
    walk.pc = "done" =>
      /\ \A f \in walk.opened : ~BelowExcluded(f)
      /\ \A k \in 1..Len(walk.merged) : ~BelowExcluded(join2(tree.root, walk.merged[k]))
      /\ impl = "fp" =>
           walk.file_count + walk.skipped_count =
               Cardinality(TopExcludedDirs) + Cardinality(FilesOutsideExcluded)
      /\ impl = "main" =>
           walk.extracted + walk.skipped_type + walk.error
               <= Cardinality(FilesOutsideExcluded)

\* the files a finished pack emitted, as paths below the output root
ExpectedOutput == {join2(env.root, walk.merged[k]) : k \in 1..Len(walk.merged)}

\* C9: end to end.  After a pack, the parse of its text and a reconstruction
\* into the empty output root, the files below the output root are exactly the
\* packed ones, each with the content of its source file; for the tree with
\* only src/main.py that is one file holding print(1) and one newline.
C9_EndToEnd ==
    (/\ walk.pc = "done"
     /\ recon.pc = "done"
     /\ impl = "main" => stage = "reparsed")
    => /\ DOMAIN fs.files = ExpectedOutput
       /\ \A k \in 1..Len(walk.merged) :
             fs.files[join2(env.root, walk.merged[k])]
                = tree.files[join2(tree.root, walk.merged[k])]
       /\ (tree = TreeSrcMain /\ rules.text = <<>>) =>
             /\ DOMAIN fs.files = {<<"/","o","/","s","r","c","/","m","a","i","n",".","p","y">>}
             /\ fs.files[<<"/","o","/","s","r","c","/","m","a","i","n",".","p","y">>] = <<"p","r","i","n","t","(","1",")","\n">>

-----------------------------------------------------------------------------
(* Claims about the records of a reconstruction (SpecRecon)                *)

\* the output root exists or can be created
RootUsable == env.root_exists \/ env.root \notin env.bad_dirs

\* C11: records are reconstructed independently.  When the output root is
\* usable, a reconstruct that has ended has ended normally with success, and
\* every record of the run was processed and counted once: as created, or as
\* an error (for main.py, under error or invalid_path).  No failure of one
\* record ends the run before the later records.
C11_RecordsIndependent ==
    (recon.pc \in {"done", "failed"} /\ RootUsable)
    => (/\ recon.pc = "done"
        /\ recon.success
        /\ recon.created + recon.error + recon.invalid_path = Len(recon.records))

-----------------------------------------------------------------------------
(* Claims about the files of a pack (SpecPack)                             *)

\* the files the walk visits: those of the tree that lie below no excluded
\* directory
VisitedFiles == FilesOutsideExcluded

\* the exclusion rules exclude file f
FileExcluded(f) ==
    IF impl = "fp"
    THEN is_excluded(f, tree.root, rules.excluded_patterns, rules.excluded_suffixes_no_dot)
    ELSE is_excluded_main(tree, f, tree.root, rules.patterns)

\* f is not excluded and its lower-cased extension is mapped and selected
Eligible(f) ==
    /\ ~FileExcluded(f)
    /\ lower(splitext_ext(basename(f))) \in DOMAIN SuffixMap
    /\ lower(splitext_ext(basename(f))) \in walk.selected_suffixes

\* the files a pack emitted, as paths of the source tree
EmittedFiles == {join2(tree.root, walk.merged[k]) : k \in 1..Len(walk.merged)}

\* the three statistics of a pack, for either program
StatEmitted == IF impl = "fp" THEN walk.file_count ELSE walk.extracted
StatSkipped == IF impl = "fp" THEN walk.skipped_count ELSE walk.skipped_type
StatErrors  == IF impl = "fp" THEN walk.error_count ELSE walk.error

\* C12: a finished pack has emitted exactly the visited files that are not
\* excluded and whose lower-cased extension is mapped and selected (and could
\* be read); every other visited file is counted as skipped and not as an
\* error, so that each visited file is counted in exactly one statistic (an
\* excluded directory is one more skipped unit of combine_files).
C12_EmitsIffEligible ==
    walk.pc = "done" =>
      LET eligible == {f \in VisitedFiles : Eligible(f)}
      IN  /\ EmittedFiles = eligible \ tree.unreadable
          /\ StatEmitted = Cardinality(eligible \ tree.unreadable)
          /\ StatErrors = Cardinality(eligible \cap tree.unreadable)
          /\ StatSkipped = Cardinality(VisitedFiles \ eligible)
                             + (IF impl = "fp" THEN Cardinality(TopExcludedDirs) ELSE 0)

\* the visited files that qualify for the pack and cannot be read
FailingFiles == {f \in VisitedFiles : Eligible(f)} \cap tree.unreadable

\* C13: a read failure does not abort the walk.  After a pack every file that
\* could not be read is absent from the output and counted as one error, and
\* every other qualifying file of the walk, in the same directory or in a
\* directory visited later, has been read and emitted.
C13_ReadFailureDoesNotAbort ==
    walk.pc = "done" =>
      /\ FailingFiles \cap EmittedFiles = {}
      /\ StatErrors = Cardinality(FailingFiles)
      /\ \A f \in VisitedFiles :
            Eligible(f) => f \in walk.opened
      /\ \A f \in VisitedFiles :
            (Eligible(f) /\ f \notin tree.unreadable) => f \in EmittedFiles

\* C13 witness: a pack has finished in which a.py could not be read and the
\* file after it (c.py of the same directory, or src/main.py of the directory
\* visited next) was emitted
C13_Witness ==
    /\ walk.pc = "done"
    /\ tree \in {TreeUnreadable, TreeUnreadableFirst}
    /\ FailingFiles = {<<"/","p","/","a",".","p","y">>}
    /\ StatErrors = 1
    /\ Len(walk.merged) = 1

-----------------------------------------------------------------------------
(* Pack with a progress dialog: cancellation, one worker at a time         *)
(* (SpecCancel)                                                            *)

\* buildGUi.py _combine_files up to the processing walk of combine_files: the
\* progress dialog opens and os.walk starts at the source root
CombineStart ==
    /\ impl = "fp"
    /\ walk.pc = "idle"
    /\ recon.pc = "idle"
    /\ walk.selected_suffixes # {}
    /\ isdir(tree, tree.root)
    /\ walk' = [IdleWalk EXCEPT !.pc = "walking",
                                !.selected_suffixes = walk.selected_suffixes,
                                !.pending = <<tree.root>>]
    /\ worker' = [worker EXCEPT !.progress_dialog = TRUE, !.is_cancelled = FALSE]
    /\ UNCHANGED tree
    /\ UNCHANGED codecVars /\ UNCHANGED reconVars /\ UNCHANGED exclVars

\* the user presses Cancel in the progress dialog of buildGUi.py; the callback
\* returns progress.wasCanceled() the next time combine_files calls it
ProgressCanceled ==
    /\ impl = "fp"
    /\ worker.progress_dialog
    /\ ~worker.is_cancelled
    /\ worker' = [worker EXCEPT !.is_cancelled = TRUE]
    /\ UNCHANGED <<tree, walk>>
    /\ UNCHANGED codecVars /\ UNCHANGED reconVars /\ UNCHANGED exclVars

\* combine_files calls progress_callback only when more than callback_interval
\* (0.1 s) has passed since the last call; last_callback_time starts at 0, so
\* the first checkpoint always calls.  The clock decides for the later ones.
CallbackChoices == IF walk.called THEN {TRUE, FALSE} ELSE {TRUE}

\* the callback returned True: combine_files breaks and returns cancelled, and
\* _combine_files clears the text area
CombineCancelledResult ==
    /\ walk' = [walk EXCEPT !.pc = "cancelled", !.cancelled = TRUE, !.called = TRUE]
    /\ worker' = [worker EXCEPT !.progress_dialog = FALSE]
    /\ text_area' = <<>>
    /\ origin_text' = <<>>
    /\ origin' = <<>>
    /\ stage' = "empty"
    /\ UNCHANGED file_data

\* one iteration of "for root, dirs, files in os.walk(...)" up to the file loop
CombineDir ==
    /\ impl = "fp"
    /\ walk.pc = "walking"
    /\ walk.files = <<>>
    /\ walk.pending # <<>>
    /\ LET root == Head(walk.pending)
           l == tree.listing[root]
           original_dirs == JoinAll(root, l.dirs)
           dirs == SelectSeq(original_dirs,
                             LAMBDA d : ~is_excluded(d, tree.root, rules.excluded_patterns,
                                                     rules.excluded_suffixes_no_dot))
       IN  IF is_excluded(root, tree.root, rules.excluded_patterns,
                          rules.excluded_suffixes_no_dot)
           THEN /\ walk' = [walk EXCEPT
                              !.skipped_count = @ + 1 + Len(l.dirs) + Len(l.files),
                              !.pending = Tail(@)]
                /\ UNCHANGED worker
                /\ UNCHANGED codecVars
           ELSE \E called \in CallbackChoices :
                  IF called /\ worker.is_cancelled
                  THEN CombineCancelledResult
                  ELSE /\ walk' = [walk EXCEPT
                                     !.skipped_count = @ + Len(original_dirs) - Len(dirs),
                                     !.files = JoinAll(root, l.files),
                                     !.pending = dirs \o Tail(@),
                                     !.called = @ \/ called]
                       /\ UNCHANGED worker
                       /\ UNCHANGED codecVars
    /\ UNCHANGED tree
    /\ UNCHANGED reconVars /\ UNCHANGED exclVars

\* one iteration of "for filename in files"
CombineFile ==
    /\ impl = "fp"
    /\ walk.pc = "walking"
    /\ walk.files # <<>>
    /\ \E called \in CallbackChoices :
         IF called /\ worker.is_cancelled
         THEN CombineCancelledResult
         ELSE /\ walk' = [CombineOne(walk, tree, rules, Head(walk.files)) EXCEPT
                            !.files = Tail(@),
                            !.called = @ \/ called]
              /\ UNCHANGED worker
              /\ UNCHANGED codecVars
    /\ UNCHANGED tree
    /\ UNCHANGED reconVars /\ UNCHANGED exclVars

\* the walk is over: combine_files makes the last progress call, whose result
\* it ignores, and returns with cancelled False; _combine_files shows the text
CombineReturn ==
    /\ impl = "fp"
    /\ walk.pc = "walking"
    /\ walk.files = <<>>
    /\ walk.pending = <<>>
    /\ walk' = [walk EXCEPT !.pc = "done"]
    /\ worker' = [worker EXCEPT !.progress_dialog = FALSE]
    /\ text_area' = walk.combined
    /\ origin_text' = walk.combined
    /\ origin' = <<>>
    /\ stage' = "serialized"
    /\ UNCHANGED <<file_data, tree>>
    /\ UNCHANGED reconVars /\ UNCHANGED exclVars

CancelTrees == {TreeBuild, TreeKinds, TreeUnreadableFirst}

CancelExcludeTexts == { <<>>, <<"b","u","i","l","d","/">> }

InitCancel ==
    /\ file_data = <<>>
    /\ text_area = <<>>
    /\ origin = <<>>
    /\ origin_text = <<>>
    /\ stage = "empty"
    /\ doc = <<>>
    /\ impl \in {"fp", "main"}
    /\ env = [root |-> OutputRoot, root_exists |-> TRUE, bad_dirs |-> {}, bad_files |-> {}]
    /\ fs = InitFs(env)
    /\ attempts = 0
    /\ recon = IdleRecon
    /\ rules \in {ParseRules(t) : t \in CancelExcludeTexts}
    /\ cand = <<>>
    /\ verdict = NoVerdict
    /\ tree \in CancelTrees
    /\ walk \in {[IdleWalk EXCEPT !.selected_suffixes = sel] : sel \in PackSelections}
    /\ worker = IdleWorker
    /\ config = NoConfig
    /\ gui = NoGui

NextCancel ==
    \/ RunExtraction
    \/ TaskExtractionStep
    \/ TaskExtractionReturn
    \/ WorkerRun
    \/ TaskExtractionFinished
    \/ CancelTask
    \/ ReconMainBegin
    \/ ReconMainStep
    \/ ReconMainReturn
    \/ ReconMainEnd
    \/ CombineStart
    \/ ProgressCanceled
    \/ CombineDir
    \/ CombineFile
    \/ CombineReturn

SpecCancel == InitCancel /\ [][NextCancel]_vars

\* a pack is in progress
PackInProgress == walk.pc \in {"running", "walking"}

\* C14: cancellation of a pack.  Once cancellation has been signalled, no step
\* of the pack reads or emits another file and the pack does not end as
\* completed; and when a pack ends as cancelled its partial result is not
\* installed: main.py leaves the record list and the text as they were,
\* buildGUi.py leaves the text area empty.
C14_CancelledPackIsDiscarded ==
    [][ PackInProgress =>
          /\ worker.is_cancelled =>
                /\ walk'.opened = walk.opened
                /\ walk'.merged = walk.merged
                /\ walk'.pc # "done"
          /\ walk'.pc = "cancelled" =>
                IF impl = "main"
                THEN file_data' = file_data /\ text_area' = text_area
                ELSE text_area' = <<>> ]_vars

\* C15: at most one worker thread runs at any time.
C15_AtMostOneWorker ==
    /\ worker.running <= 1
    /\ ~(walk.pc = "running" /\ recon.pc = "loop")

\* C15 witness: a request for a pack or a reconstruction was turned down while
\* the worker that had been cancelled was still running
C15_Witness ==
    /\ worker.rejected = 1
    /\ worker.running = 1
    /\ worker.is_cancelled
    /\ ~worker.progress_dialog

-----------------------------------------------------------------------------
(* The layout of a serialized block (SpecCodec)                            *)

\* the comment tokens that open a comment which needs a closing token, with
\* the token that closes it
BracketClose ==
    (MarkupOpen :> <<"-", "-", ">">>) @@ (<<"/", "*">> :> <<"*", "/">>)

\* the path line the block of a record has to carry, without its newline; <<>>
\* when the record has no comment symbol
ExpectedPathLine(file_info) ==
    IF file_info.comment_symbol = <<>> THEN <<>>
    ELSE IF file_info.comment_symbol \in DOMAIN BracketClose
    THEN file_info.comment_symbol \o <<" ">> \o file_info.rel_path \o <<" ">>
         \o BracketClose[file_info.comment_symbol]
    ELSE file_info.comment_symbol \o <<" ">> \o file_info.rel_path

\* the blocks of the text area, as the parser's block pattern finds them
TextBlocks == CODE_BLOCK_PATTERN_main(text_area)

\* C16: serialize emits the path line according to the record's comment_symbol:
\* none when the symbol is empty (the block starts with the content), the path
\* wrapped front and back for a bracketing style, the prefix and the path for a
\* line-prefix style; the path on the line is the record's relative_path.
C16_PathLineFollowsCommentSymbol ==
    stage = "serialized" =>
        /\ Len(TextBlocks) = Len(file_data)
        /\ \A k \in 1..Len(file_data) :
             LET body == TextBlocks[k].body
                 rec  == file_data[k]
             IN  IF rec.comment_symbol = <<>>
                 THEN ~Contains(body, rec.rel_path)
                 ELSE /\ FirstLine(body) = ExpectedPathLine(rec)
                      /\ ~Contains(AfterFirstLine(body), rec.rel_path)


\* a text without its trailing blank lines: what stands up to the end of the
\* last line that holds a character other than white space
WithoutTrailingBlankLines(content) ==
    LET inked == {k \in 1..Len(content) : content[k] \notin WhiteSpace}
    IN  IF inked = {} THEN <<>>
        ELSE Take(content, FindSet(content, Max(inked), {"\n"}) - 1)

\* C17: in every serialized block the text between the path line and the
\* closing fence is the record's content with only its trailing blank lines
\* removed (its beginning is unchanged), followed by exactly one newline.
C17_ContentOnlyLosesTrailingBlankLines ==
    stage = "serialized" =>
        text_area = Join([k \in 1..Len(file_data) |->
                            Fence \o file_data[k].language \o <<"\n">>
                                  \o comment_line(file_data[k])
                                  \o WithoutTrailingBlankLines(file_data[k].content)
                                  \o <<"\n">> \o Fence \o <<"\n">>],
                         <<"\n">>)

-----------------------------------------------------------------------------
(* Parsing documents as a user writes them (SpecParse)                     *)

\* the first lines of the blocks of a hand-written document: two path
\* comments, a line of code, a comment whose path starts with '#', and a
\* comment marker with nothing behind it
ParseFirstLines ==
    { <<"#", " ", "a", ".", "p", "y">>,
      <<"#", " ", "b", ".", "p", "y">>,
      <<"x", " ", "=", " ", "1">>,
      <<"#", " ", "#", "a", ".", "p", "y">>,
      <<"#">> }

\* the language tags of the blocks: none, and a word
ParseTags == { <<>>, Py }

\* a block of a hand-written document: its tag, its first line, and the lines
\* after the first
RawBlocks ==
    { [language |-> t, first_line |-> l, content |-> c] :
        t \in ParseTags, l \in ParseFirstLines, c \in ReconContents }

RawDocs == {d \in SeqsUpTo(RawBlocks, MaxBlocks) : d # <<>>}

\* the text of a hand-written document: fenced blocks, a blank line between
RawText(d) ==
    Join([k \in 1..Len(d) |->
            Fence \o d[k].language \o <<"\n">> \o d[k].first_line \o <<"\n">>
                  \o d[k].content \o <<"\n">> \o Fence \o <<"\n">>],
         <<"\n">>)

\* the user types or pastes a document into the text area
LoadRaw(D) ==
    /\ recon.pc = "idle"
    /\ doc = <<>>
    /\ \E d \in D :
         /\ doc' = d
         /\ text_area' = RawText(d)
    /\ stage' = "loaded"
    /\ UNCHANGED <<file_data, origin, origin_text, impl, env, fs, attempts, recon>>
    /\ UNCHANGED exclVars /\ UNCHANGED walkVars

InitParse ==
    /\ file_data = <<>>
    /\ text_area = <<>>
    /\ origin = <<>>
    /\ origin_text = <<>>
    /\ stage = "empty"
    /\ doc = <<>>
    /\ impl \in {"fp", "main"}
    /\ env = [root |-> OutputRoot, root_exists |-> TRUE, bad_dirs |-> {}, bad_files |-> {}]
    /\ fs = InitFs(env)
    /\ attempts = 0
    /\ recon = IdleRecon
    /\ rules = NoRules
    /\ cand = <<>>
    /\ verdict = NoVerdict
    /\ tree = NoTree
    /\ walk = IdleWalk
    /\ worker = IdleWorker
    /\ config = NoConfig
    /\ gui = NoGui

NextParse ==
    \/ LoadRaw(RawDocs)
    \/ ParseTextToTree
    \/ ReconMainBegin
    \/ ReconMainStep
    \/ ReconMainReturn
    \/ WorkerRun
    \/ ReconMainEnd
    \/ ReconFpBegin
    \/ ReconFpStep
    \/ ReconFpEnd

SpecParse == InitParse /\ [][NextParse]_vars

\* the document has been parsed, and the records are those of the document
ParsedNow ==
    IF impl = "main" THEN stage = "parsed" ELSE recon.pc \in {"loop", "done"}

ParsedRecords == IF impl = "main" THEN file_data ELSE recon.records

RecordPaths == {ParsedRecords[k].rel_path : k \in 1..Len(ParsedRecords)}

\* the first line of a block matches the path-comment pattern of the program
FirstLineMatches(b) ==
    IF impl = "main" THEN PATH_COMMENT_PATTERN(b.first_line).ok
    ELSE FIRST_LINE_PATH_COMMENT_PATTERN(b.first_line).ok

\* the path token the pattern extracts from the first line of a block
ExtractedPath(b) ==
    IF impl = "main" THEN Strip(PATH_COMMENT_PATTERN(b.first_line).g2)
    ELSE Strip(FIRST_LINE_PATH_COMMENT_PATTERN(b.first_line).g1)

\* a block the parser has to reject
MustReject(b) ==
    \/ ~FirstLineMatches(b)
    \/ ExtractedPath(b) = <<>>
    \/ ExtractedPath(b)[1] = "#"

DocBlocks == {doc[k] : k \in 1..Len(doc)}

\* C18: parse rejects every block whose first line does not match the
\* path-comment pattern or whose extracted path is empty or starts with '#':
\* every record comes from a block that is not such a block, and a tagged block
\* that is not such a block is still parsed when another block is rejected.
C18_BadFirstLineIsRejected ==
    ParsedNow =>
        /\ RecordPaths \subseteq
              {ExtractedPath(b) : b \in {c \in DocBlocks : ~MustReject(c)}}
        /\ \A b \in DocBlocks :
              (~MustReject(b) /\ b.language # <<>>) => ExtractedPath(b) \in RecordPaths


\* the last block of the document from which the parser extracts the path p
LastRawBlockFor(p) ==
    doc[Max({k \in 1..Len(doc) : ExtractedPath(doc[k]) = p /\ FirstLineMatches(doc[k])})]

\* C19: the content of a record is the content of its block after the first
\* line; the path line is neither in the record nor in the file that
\* reconstruct writes for it.
C19_ContentExcludesPathLine ==
    ParsedNow =>
        \A k \in 1..Len(ParsedRecords) :
            LET r == ParsedRecords[k]
                b == LastRawBlockFor(r.rel_path)
                full_path == join2(env.root, r.rel_path)
            IN  /\ r.content = b.content
                /\ full_path \in DOMAIN fs.files =>
                      /\ Strip(fs.files[full_path]) = b.content
                      /\ ~StartsWith(fs.files[full_path], b.first_line)

\* C20: parse recognizes a fenced block whatever its language tag, the empty
\* tag included: every block whose first line is a valid path comment yields a
\* record of its path, be its fence bare or tagged.
C20_AnyTagIsRecognized ==
    ParsedNow =>
        \A b \in DocBlocks : ~MustReject(b) => ExtractedPath(b) \in RecordPaths

-----------------------------------------------------------------------------
(* The path comment of a packed file (SpecPack)                            *)

\* the blocks of the text combine_files returned
CombinedBlocks == CODE_BLOCK_PATTERN_const(walk.combined)

\* a line is a path comment: the detector of file_processor.py matches it
IsPathComment(line) == FIRST_LINE_PATH_COMMENT_PATTERN(Strip(line)).ok

\* C21: pack policy (ii).  The block emitted for a file holds exactly one
\* path-comment line, its first, and that line names the file's relative path:
\* a correct first line of the file is kept and not doubled, a first line that
\* names another path is replaced.
C21_ExactlyOnePathComment ==
    (impl = "fp" /\ walk.pc = "done") =>
        /\ Len(CombinedBlocks) = Len(walk.merged)
        /\ \A k \in 1..Len(walk.merged) :
             LET body == CombinedBlocks[k].body
             IN  /\ IsPathComment(FirstLine(body))
                 /\ Strip(FIRST_LINE_PATH_COMMENT_PATTERN(Strip(FirstLine(body))).g1)
                        = walk.merged[k]
                 /\ ~IsPathComment(FirstLine(AfterFirstLine(body)))

-----------------------------------------------------------------------------
(* The exclusion rules of file_processor.py on a tree with nested names    *)
(* (SpecSimple)                                                            *)

\* directories .git and build at the root and below a/, a file name at the
\* root and below a/, and an upper-case extension
SimpleTree ==
    Tree(<<"/","p">>,
         (<<"/","p">> :> [dirs |-> <<<<".","g","i","t">>, <<"a">>, <<"b","u","i","l","d">>>>,
                          files |-> <<<<"A",".","L","O","G">>, <<"t",".","p","y">>>>]) @@
          (<<"/","p","/",".","g","i","t">> :> [dirs |-> <<>>, files |-> <<<<"c",".","p","y">>>>]) @@
          (<<"/","p","/","a">> :> [dirs |-> <<<<".","g","i","t">>, <<"b","u","i","l","d">>>>,
                                   files |-> <<<<"t",".","p","y">>>>]) @@
          (<<"/","p","/","a","/",".","g","i","t">> :> [dirs |-> <<>>, files |-> <<<<"c",".","p","y">>>>]) @@
          (<<"/","p","/","a","/","b","u","i","l","d">> :> [dirs |-> <<>>, files |-> <<<<"n",".","p","y">>>>]) @@
          (<<"/","p","/","b","u","i","l","d">> :> [dirs |-> <<>>, files |-> <<<<"x",".","p","y">>>>]),
         (<<"/","p","/","A",".","L","O","G">> :> <<"l","\n">>) @@
          (<<"/","p","/","t",".","p","y">> :> <<"t","\n">>) @@
          (<<"/","p","/",".","g","i","t","/","c",".","p","y">> :> <<"c","\n">>) @@
          (<<"/","p","/","a","/","t",".","p","y">> :> <<"t","\n">>) @@
          (<<"/","p","/","a","/",".","g","i","t","/","c",".","p","y">> :> <<"c","\n">>) @@
          (<<"/","p","/","a","/","b","u","i","l","d","/","n",".","p","y">> :> <<"n","\n">>) @@
          (<<"/","p","/","b","u","i","l","d","/","x",".","p","y">> :> <<"x","\n">>),
         {})

\* the items a user types into the exclusion field of buildGUi.py
SimpleAtoms ==
    { <<"b","u","i","l","d","/">>,
      <<".","g","i","t","/">>,
      <<"*",".","l","o","g">>,
      <<"t",".","p","y">>,
      <<"a","/","t",".","p","y">> }

\* exclusion texts: up to MaxRules items, separated by a comma and a space
SimpleTexts ==
    {<<>>} \cup {Join(rs, <<",", " ">>) : rs \in SeqsUpTo(SimpleAtoms, MaxRules)}

InitSimple ==
    /\ file_data = <<>>
    /\ text_area = <<>>
    /\ origin = <<>>
    /\ origin_text = <<>>
    /\ stage = "empty"
    /\ doc = <<>>
    /\ impl = "fp"
    /\ env = [root |-> OutputRoot, root_exists |-> TRUE, bad_dirs |-> {}, bad_files |-> {}]
    /\ fs = InitFs(env)
    /\ attempts = 0
    /\ recon = IdleRecon
    /\ rules = NoRules
    /\ cand = <<>>
    /\ verdict = NoVerdict
    /\ tree = SimpleTree
    /\ walk = [IdleWalk EXCEPT !.selected_suffixes = {<<".","p","y">>}]
    /\ worker = IdleWorker
    /\ config = NoConfig
    /\ gui = NoGui

NextSimple ==
    \/ SetExclusions(SimpleTexts)
    \/ CheckPath
    \/ CombineFiles

SpecSimple == InitSimple /\ [][NextSimple]_vars

\* the items of the exclusion text
ExcludeItems ==
    LET parts == SplitSet(rules.text, {","})
    IN  {Strip(parts[k]) : k \in 1..Len(parts)} \ {<<>>}

\* a directory pattern X/
DirectoryItems == {item \in ExcludeItems : EndsWith(item, Slash)}

\* a suffix exclusion *.ext or .ext
SuffixItems == {item \in ExcludeItems \ DirectoryItems : ItemIsSuffix(item)}

LiteralItems == ExcludeItems \ (DirectoryItems \cup SuffixItems)

\* a directory pattern X/ matches a relative path: the path is X or starts with X/
DirectoryItemMatches(item, rel_path) ==
    \/ rel_path = Take(item, Len(item) - 1)
    \/ StartsWith(rel_path, item)

\* C22: in the exact/simple strategy a path is excluded iff its basename or its
\* relative path equals a literal pattern, or a directory pattern X/ matches it,
\* or its lower-cased extension without the dot is in the suffix set.
C22_SimpleExclusionRule ==
    cand # <<>> =>
        LET rel_path == relpath(cand, tree.root)
            base == basename(cand)
            ext == lower(Drop(splitext_ext(base), 1))
        IN  verdict.simple <=>
              \/ base \in LiteralItems \/ rel_path \in LiteralItems
              \/ \E item \in DirectoryItems : DirectoryItemMatches(item, rel_path)
              \/ ext # <<>> /\ ext \in {ItemSuffix(item) : item \in SuffixItems}


\* the files of the tree with a selected suffix that no item of the exclusion
\* text excludes, a directory pattern X/ taken as anchored at the source root
KeptByAnchoredRules ==
    {f \in DOMAIN tree.files :
        LET rel_path == relpath(f, tree.root)
        IN  /\ lower(splitext_ext(basename(f))) \in walk.selected_suffixes
            /\ ~\E item \in DirectoryItems : DirectoryItemMatches(item, rel_path)}

-----------------------------------------------------------------------------
(* The text area and the collection (SpecCodec)                            *)

\* the text holds one block per record of the collection, in its order
OneBlockPerRecord(text, data) ==
    LET blocks == CODE_BLOCK_PATTERN_main(text)
    IN  /\ Len(blocks) = Len(data)
        /\ \A k \in 1..Len(data) :
              /\ blocks[k].language = data[k].language
              /\ data[k].comment_symbol # <<>> => Contains(blocks[k].body, data[k].rel_path)
              /\ EndsWith(blocks[k].body, Strip(data[k].content))

\* C23: after every pack, parse and drag-reorder the text holds exactly one
\* block per record of the current collection, in the collection's order; and
\* a reorder changes the order of the records only, neither which records the
\* collection holds nor their content.
C23_ReorderOnlyPermutes ==
    [][ /\ OneBlockPerRecord(text_area', file_data')
        /\ FileOrderChanged =>
              /\ Len(file_data') = Len(file_data)
              /\ SeqToSet(file_data') = SeqToSet(file_data) ]_vars

-----------------------------------------------------------------------------
(* The signals of a Worker (SpecWorker)                                    *)

\* the documents of the reconstructions a worker runs: a record that is
\* written, and a record whose path makes os.makedirs raise ValueError
WorkerDocs ==
    SeqsUpTo({FileInfo(p, <<"x">>, Py, Hash) : p \in {P_a_b, P_nul}}, MaxBlocks)

InitWorker ==
    /\ file_data = <<>>
    /\ text_area = <<>>
    /\ origin = <<>>
    /\ origin_text = <<>>
    /\ stage = "empty"
    /\ doc = <<>>
    /\ impl = "main"
    /\ env = [root |-> OutputRoot, root_exists |-> TRUE, bad_dirs |-> {}, bad_files |-> {}]
    /\ fs = InitFs(env)
    /\ attempts = 0
    /\ recon = IdleRecon
    /\ rules = ParseRules(<<>>)
    /\ cand = <<>>
    /\ verdict = NoVerdict
    /\ tree \in {TreeKinds, TreeUnreadableFirst}
    /\ walk \in {[IdleWalk EXCEPT !.selected_suffixes = sel] : sel \in PackSelections}
    /\ worker = IdleWorker
    /\ config = NoConfig
    /\ gui = NoGui

NextWorker ==
    \/ LoadText(WorkerDocs)
    \/ ParseTextToTree
    \/ RunExtraction
    \/ TaskExtractionStep
    \/ TaskExtractionReturn
    \/ TaskExtractionFinished
    \/ ReconMainBegin
    \/ ReconMainStep
    \/ ReconMainReturn
    \/ ReconMainEnd
    \/ OnTaskError
    \/ WorkerRun
    \/ CancelTask

SpecWorker == InitWorker /\ [][NextWorker]_vars

\* the Worker object of the step is the one that was there before the step
SameWorker == worker'.started = worker.started

\* C27: the signals of a Worker.  A Worker emits at most one signal, finished
\* or error; it emits none when is_cancelled is set, and is_cancelled, once
\* set, stays set for the rest of the Worker's life, so that a Worker
\* cancelled before its task function returned emits nothing; and the result
\* that the finished handler receives is never that of an interrupted loop.
C27_CancelledWorkerEmitsNothing ==
    [][ /\ worker'.emitted <= 1
        /\ (SameWorker /\ worker.is_cancelled) =>
              /\ worker'.is_cancelled
              /\ worker'.emitted = worker.emitted
              /\ worker.signal = "none" => worker'.signal = "none"
        /\ worker'.outcome = "partial" => worker'.signal = "none"
        /\ worker'.signal = "finished" => worker'.outcome = "complete"
        /\ worker'.signal = "error" => worker'.outcome = "raised"
        /\ (walk.pc = "returned" /\ walk'.pc = "done") =>
              /\ walk.i > Len(walk.all_filepaths)
              /\ file_data' = walk.new_file_data ]_vars

\* C27 witness: a pack was cancelled after it had read a file; its Worker
\* has ended without a signal and nothing was installed
C27_Witness ==
    /\ walk.pc = "cancelled"
    /\ worker.outcome = "partial"
    /\ walk.new_file_data # <<>>
    /\ worker.running = 0
    /\ worker.emitted = 0
    /\ file_data = <<>>

-----------------------------------------------------------------------------
(* The configuration file (SpecConfig)                                     *)

Dot_py == <<".","p","y">>

\* the values handed to save_config for the three keys and for a fourth key
SuffixMapInputs ==
    { DictV({<<Str(Dot_py), Str(<<"p","y">>)>>}),
      DictV({<<Str(Dot_py), IntV(<<"1">>)>>}),
      DictV({<<IntV(<<"1">>), Str(<<"p","y">>)>>}),
      DictV({<<Str(Dot_py), SetV({})>>}),
      ListV(<<>>),
      Missing }

SelectedSuffixesInputs ==
    { ListV(<<>>),
      ListV(<<Str(Dot_py)>>),
      ListV(<<IntV(<<"1">>)>>),
      TupleV(<<Str(Dot_py)>>),
      Missing }

ExcludePatternsInputs == { Str(<<>>), Str(<<"b","/">>), Missing }

ExtraInputs == { Missing, IntV(<<"1">>) }

ConfigInputs ==
    { ConfigData(sm, ss, ep, ex) :
        sm \in SuffixMapInputs, ss \in SelectedSuffixesInputs,
        ep \in ExcludePatternsInputs, ex \in ExtraInputs }

\* one call of save_config
SaveConfig(D) ==
    /\ ~gui.open
    /\ \E config_data \in D :
         LET r == save_config(config.file, config_data)
         IN  config' = [file |-> r.file, before |-> config.file,
                        saved |-> <<config_data>>,
                        ret |-> IF r.ret THEN "True" ELSE "False",
                        loaded |-> <<>>]
    /\ UNCHANGED <<rules, cand, verdict, gui>>
    /\ UNCHANGED codecVars /\ UNCHANGED reconVars /\ UNCHANGED walkVars

\* one call of load_config
LoadConfig ==
    /\ ~gui.open
    /\ config.loaded = <<>>
    /\ config' = [config EXCEPT !.loaded = <<load_config(config.file)>>]
    /\ UNCHANGED <<rules, cand, verdict, gui>>
    /\ UNCHANGED codecVars /\ UNCHANGED reconVars /\ UNCHANGED walkVars

InitConfig ==
    /\ file_data = <<>>
    /\ text_area = <<>>
    /\ origin = <<>>
    /\ origin_text = <<>>
    /\ stage = "empty"
    /\ doc = <<>>
    /\ impl = "fp"
    /\ env = [root |-> OutputRoot, root_exists |-> TRUE, bad_dirs |-> {}, bad_files |-> {}]
    /\ fs = InitFs(env)
    /\ attempts = 0
    /\ recon = IdleRecon
    /\ rules = NoRules
    /\ cand = <<>>
    /\ verdict = NoVerdict
    /\ tree = NoTree
    /\ walk = IdleWalk
    /\ worker = IdleWorker
    /\ config = NoConfig
    /\ gui = NoGui

NextConfig ==
    \/ SaveConfig(ConfigInputs)
    \/ LoadConfig

SpecConfig == InitConfig /\ [][NextConfig]_vars

\* C24: the round trip of a configuration.  A load_config after a save_config
\* that returned True gives a configuration equal to the one saved; a
\* save_config of a configuration that misses a key or has a value of the
\* wrong type returns False and leaves the file as it was.
C24_ConfigRoundTrip ==
    /\ (config.ret = "True" /\ config.loaded # <<>>) => config.loaded = config.saved
    /\ (config.saved # <<>> /\ ~save_config_accepts(config.saved[1])) =>
          /\ config.ret = "False"
          /\ config.file = config.before

-----------------------------------------------------------------------------
(* buildGUi.py: the delayed save of the configuration (SpecGui)            *)

\* the most configuration changes a behaviour makes in the window
MaxChanges == 3

\* list(a_set): the members in the order the set gives them
RECURSIVE ListOfSet(_)
ListOfSet(S) ==
    IF S = {} THEN <<>>
    ELSE LET x == CHOOSE y \in S : TRUE
         IN  <<x>> \o ListOfSet(S \ {x})

\* the keys of a suffix map
MapKeys(suffix_map) == {p[1] : p \in suffix_map.pairs}

\* the configuration files the window starts with, the suffixes whose check
\* boxes are clicked, the texts typed into the exclusion field and the maps
\* the suffix map editor returns
Dot_md == <<".","m","d">>

GuiFiles ==
    { AbsentFile,
      JsonFile(ConfigData(DictV({<<Str(Dot_py), Str(<<"p","y">>)>>,
                                 <<Str(Dot_md), Str(<<"m","d">>)>>}),
                          ListV(<<Str(Dot_py)>>), Str(<<"b","/">>), Missing)) }

GuiSuffixes == {Str(Dot_py), Str(Dot_md)}

GuiTexts == { <<>>, <<"b","/">>, <<"b","/"," ">> }

GuiMaps == { DictV({}), DictV({<<Str(Dot_py), Str(<<"p","y">>)>>}) }

\* ModernProjectManagerApp.__init__: _load_initial_config, the check boxes of
\* _update_suffix_checkboxes, the exclusion field, and the timer, not started
OpenWindow ==
    /\ ~gui.open /\ ~gui.closed
    /\ LET c == load_config(config.file)
       IN  gui' = [open |-> TRUE, closed |-> FALSE,
                   suffix_map |-> c.suffix_map,
                   selected |-> IF c.selected_suffixes = NoneV
                                THEN MapKeys(c.suffix_map)
                                ELSE {k \in MapKeys(c.suffix_map) :
                                        k \in SeqToSet(c.selected_suffixes.items)},
                   text |-> c.exclude_patterns.chars,
                   timer |-> FALSE, pending |-> 0, changes |-> 0, saves |-> 0,
                   flushed |-> FALSE]
    /\ UNCHANGED <<rules, cand, verdict, config>>
    /\ UNCHANGED codecVars /\ UNCHANGED reconVars /\ UNCHANGED walkVars

\* _trigger_save_config: self._save_config_timer.start() starts the single
\* shot timer, or starts it again when it runs
trigger_save_config(g) ==
    [g EXCEPT !.timer = TRUE, !.pending = @ + 1, !.changes = @ + 1]

\* the config_data of _save_current_config
current_config(g) ==
    ConfigData(g.suffix_map, ListV(ListOfSet(g.selected)), Str(Strip(g.text)), Missing)

\* _save_current_config: the configuration of the window goes to save_config
save_current_config(g, c) ==
    LET r == save_config(c.file, current_config(g))
    IN  [file |-> r.file, before |-> c.file, saved |-> <<current_config(g)>>,
         ret |-> IF r.ret THEN "True" ELSE "False", loaded |-> <<>>]

\* a closeEvent that sees no running timer
isActiveNever(g) == FALSE

\* self._save_config_timer.isActive()
isActive(g) == g.timer

\* a change the window makes to its configuration, then _trigger_save_config
ConfigChange(g) ==
    /\ gui.open
    /\ gui.changes < MaxChanges
    /\ gui' = trigger_save_config(g)
    /\ UNCHANGED <<rules, cand, verdict, config>>
    /\ UNCHANGED codecVars /\ UNCHANGED reconVars /\ UNCHANGED walkVars

\* a check box is clicked: stateChanged
ToggleSuffix ==
    \E s \in GuiSuffixes \cap MapKeys(gui.suffix_map) :
        ConfigChange([gui EXCEPT !.selected = IF s \in @ THEN @ \ {s} ELSE @ \cup {s}])

\* _select_all_suffixes(select): nothing without check boxes; else every
\* box is set with its signal disconnected and one save is triggered
SelectAllSuffixes ==
    /\ MapKeys(gui.suffix_map) # {}
    /\ \E select \in BOOLEAN :
         ConfigChange([gui EXCEPT !.selected = IF select THEN MapKeys(gui.suffix_map) ELSE {}])

\* the exclusion field is edited: textChanged
ExcludeTextChanged ==
    \E t \in GuiTexts :
        /\ t # gui.text
        /\ ConfigChange([gui EXCEPT !.text = t])

\* _reset_suffix_map_to_defaults
ResetSuffixMap ==
    /\ gui.suffix_map # DEFAULT_SUFFIX_MAP
    /\ ConfigChange([gui EXCEPT !.suffix_map = DEFAULT_SUFFIX_MAP,
                                !.selected = MapKeys(DEFAULT_SUFFIX_MAP)])

\* _open_suffix_map_editor, the dialog accepted with another map
EditSuffixMap ==
    \E new_map \in GuiMaps :
        /\ new_map # gui.suffix_map
        /\ ConfigChange([gui EXCEPT !.suffix_map = new_map, !.selected = MapKeys(new_map)])

\* the timer times out: _save_current_config
TimerTimeout ==
    /\ gui.open
    /\ gui.timer
    /\ config' = save_current_config(gui, config)
    /\ gui' = [gui EXCEPT !.timer = FALSE, !.pending = 0, !.saves = @ + 1]
    /\ UNCHANGED <<rules, cand, verdict>>
    /\ UNCHANGED codecVars /\ UNCHANGED reconVars /\ UNCHANGED walkVars

\* closeEvent: a running timer is stopped and the configuration saved, then
\* the window closes
CloseEvent ==
    /\ gui.open
    /\ IF isActive(gui)
       THEN /\ config' = save_current_config(gui, config)
            /\ gui' = [gui EXCEPT !.timer = FALSE, !.pending = 0, !.saves = @ + 1,
                                  !.flushed = TRUE, !.open = FALSE, !.closed = TRUE]
       ELSE /\ gui' = [gui EXCEPT !.open = FALSE, !.closed = TRUE]
            /\ UNCHANGED config
    /\ UNCHANGED <<rules, cand, verdict>>
    /\ UNCHANGED codecVars /\ UNCHANGED reconVars /\ UNCHANGED walkVars

InitGui ==
    /\ file_data = <<>>
    /\ text_area = <<>>
    /\ origin = <<>>
    /\ origin_text = <<>>
    /\ stage = "empty"
    /\ doc = <<>>
    /\ impl = "fp"
    /\ env = [root |-> OutputRoot, root_exists |-> TRUE, bad_dirs |-> {}, bad_files |-> {}]
    /\ fs = InitFs(env)
    /\ attempts = 0
    /\ recon = IdleRecon
    /\ rules = NoRules
    /\ cand = <<>>
    /\ verdict = NoVerdict
    /\ tree = NoTree
    /\ walk = IdleWalk
    /\ worker = IdleWorker
    /\ config \in {[NoConfig EXCEPT !.file = f] : f \in GuiFiles}
    /\ gui = NoGui

NextGui ==
    \/ OpenWindow
    \/ ToggleSuffix
    \/ SelectAllSuffixes
    \/ ExcludeTextChanged
    \/ ResetSuffixMap
    \/ EditSuffixMap
    \/ TimerTimeout
    \/ CloseEvent

SpecGui == InitGui /\ [][NextGui]_vars

\* the file that holds the configuration the window shows
FileOfWindow(g) == save_config(AbsentFile, current_config(g)).file

-----------------------------------------------------------------------------
(* The counters of reconstruct_from_content (SpecAccount)                  *)

\* a second spelling of the path a/b.py
P_a_slash_b == <<"a","/","/","b",".","p","y">>

\* the documents: blocks for a/b.py, for its second spelling and for a path
\* that cannot be written in one of the environments
AccountDocs ==
    SeqsUpTo({FileInfo(p, c, Py, Hash) :
                p \in {P_a_b, P_a_slash_b, P_src_main}, c \in ReconContents},
             MaxBlocks)

InitAccount ==
    /\ file_data = <<>>
    /\ text_area = <<>>
    /\ origin = <<>>
    /\ origin_text = <<>>
    /\ stage = "empty"
    /\ doc = <<>>
    /\ impl = "fp"
    /\ env \in Envs
    /\ fs = InitFs(env)
    /\ attempts = 0
    /\ recon = IdleRecon
    /\ rules = NoRules
    /\ cand = <<>>
    /\ verdict = NoVerdict
    /\ tree = NoTree
    /\ walk = IdleWalk
    /\ worker = IdleWorker
    /\ config = NoConfig
    /\ gui = NoGui

NextAccount ==
    \/ LoadText(AccountDocs)
    \/ ReconFpBegin
    \/ ReconFpStep
    \/ ReconFpEnd

SpecAccount == InitAccount /\ [][NextAccount]_vars

\* the files that exist below the output root
FilesWritten == {f \in DOMAIN fs.files : IsBelow(f, env.root)}

\* C25: the counters of a reconstruction.  When the output root is usable and
\* reconstruct_from_content has returned, created_count + error_count is the
\* number of records parsed from the document, and created_count is the
\* number of files written.
C25_ReconstructAccounting ==
    (impl = "fp" /\ recon.pc = "done" /\ RootUsable) =>
        /\ recon.success
        /\ recon.created + recon.error = Len(recon.records)
        /\ recon.created = Cardinality(FilesWritten)

-----------------------------------------------------------------------------
(* A path that occurs in several blocks (SpecDup)                          *)

\* the most blocks of a document with repeated paths
MaxDupBlocks == 3

DupDocs ==
    SeqsUpTo({FileInfo(p, c, Py, Hash) : p \in {P_a_b, P_src_main}, c \in ReconContents},
             MaxDupBlocks)

InitDup ==
    /\ file_data = <<>>
    /\ text_area = <<>>
    /\ origin = <<>>
    /\ origin_text = <<>>
    /\ stage = "empty"
    /\ doc = <<>>
    /\ impl \in {"fp", "main"}
    /\ env = [root |-> OutputRoot, root_exists |-> TRUE, bad_dirs |-> {}, bad_files |-> {}]
    /\ fs = InitFs(env)
    /\ attempts = 0
    /\ recon = IdleRecon
    /\ rules = NoRules
    /\ cand = <<>>
    /\ verdict = NoVerdict
    /\ tree = NoTree
    /\ walk = IdleWalk
    /\ worker = IdleWorker
    /\ config = NoConfig
    /\ gui = NoGui

NextDup ==
    \/ LoadText(DupDocs)
    \/ ParseTextToTree
    \/ ReconFpBegin
    \/ ReconFpStep
    \/ ReconFpEnd

SpecDup == InitDup /\ [][NextDup]_vars

\* the index of the first block of the document commented with path p
FirstBlockIndex(p) ==
    CHOOSE k \in 1..Len(doc) :
        /\ doc[k].rel_path = p
        /\ \A j \in 1..(k - 1) : doc[j].rel_path # p

\* the records stand in the order in which their paths first occur in the
\* document
InFirstOccurrenceOrder(recs) ==
    \A j, k \in 1..Len(recs) :
        j < k => FirstBlockIndex(recs[j].rel_path) < FirstBlockIndex(recs[k].rel_path)

\* C26: a path that occurs in several blocks.  The parsed collection holds the
\* records in the order of the first occurrence of their paths, each with the
\* content of the last block of its path; main.py writes the text again in
\* that order, and file_processor.py writes the files in that order.
C26_FirstPositionLastContent ==
    /\ (impl = "main" /\ stage = "parsed") =>
         /\ InFirstOccurrenceOrder(file_data)
         /\ \A k \in 1..Len(file_data) :
              file_data[k].content = LastBlockFor(file_data[k].rel_path).content
         /\ text_area = regenerate_combined_text(file_data)
    /\ (impl = "fp" /\ recon.pc \in {"loop", "done"} /\ doc # <<>>) =>
         /\ InFirstOccurrenceOrder(recon.records)
         /\ \A k \in 1..Len(recon.records) :
              recon.records[k].content =
                  <<"#", " ">> \o recon.records[k].rel_path \o <<"\n">>
                     \o LastBlockFor(recon.records[k].rel_path).content

\* C26 witness: a document of three blocks whose first and third block have the
\* same path and different contents has been parsed into two records
C26_Witness ==
    /\ Len(doc) = 3
    /\ doc[1].rel_path = doc[3].rel_path
    /\ doc[1].rel_path # doc[2].rel_path
    /\ doc[1].content # doc[3].content
    /\ \/ /\ impl = "main" /\ stage = "parsed"
          /\ Len(file_data) = 2
          /\ file_data[1].rel_path = doc[1].rel_path
       \/ /\ impl = "fp" /\ recon.pc = "done"
          /\ Len(recon.records) = 2
          /\ recon.records[1].rel_path = doc[1].rel_path

-----------------------------------------------------------------------------
(* Repeated pack and reconstruct cycles (SpecCycle)                        *)

\* the output directories of the successive reconstructions
CycleRoots == <<OutputRoot, <<"/","q">>, <<"/","r">>>>

\* the position of the current output directory among CycleRoots
CycleOf(root) == CHOOSE k \in 1..Len(CycleRoots) : CycleRoots[k] = root

\* the source tree os.walk sees when the source directory is the directory root
\* of the file system st, every file of it readable
TreeOfFs(st, root) ==
    LET inside == {d \in st.dirs : d = root \/ IsBelow(d, root)}
    IN  Tree(root,
             [d \in inside |->
                 [dirs  |-> ListOfSet({basename(x) : x \in {y \in inside : y # d /\ dirname(y) = d}}),
                  files |-> ListOfSet({basename(f) : f \in {g \in DOMAIN st.files : dirname(g) = d}})]],
             [f \in {g \in DOMAIN st.files : IsBelow(g, root)} |-> st.files[f]],
             {})

\* a file with a space in its name, in a directory
TreeSpaceName ==
    Tree(<<"/","p">>,
         (<<"/","p">> :> [dirs |-> <<<<"d">>>>, files |-> <<>>]) @@
          (<<"/","p","/","d">> :> [dirs |-> <<>>, files |-> <<<<"a"," ","b",".","p","y">>>>]),
         (<<"/","p","/","d","/","a"," ","b",".","p","y">> :> <<"x","\n">>),
         {})

\* a file whose name starts with a parenthesis
TreeParenName ==
    Tree(<<"/","p">>,
         (<<"/","p">> :> [dirs |-> <<>>, files |-> <<<<"(","a",")",".","p","y">>>>]),
         (<<"/","p","/","(","a",")",".","p","y">> :> <<"x","\n">>),
         {})

CycleTrees == {TreeSrcMain, TreeKinds, TreeStaleComment, TreeSpaceName, TreeParenName}

\* buildGUi.py _browse_source_dir and _browse_output_dir after a reconstruction:
\* the directory just reconstructed becomes the source directory and the next,
\* empty, directory the output directory
BrowseReconstructed ==
    /\ impl = "fp"
    /\ recon.pc = "done"
    /\ recon.success
    /\ walk.pc = "done"
    /\ CycleOf(env.root) < Len(CycleRoots)
    /\ tree' = TreeOfFs(fs, env.root)
    /\ env' = [env EXCEPT !.root = CycleRoots[CycleOf(env.root) + 1]]
    /\ fs' = [fs EXCEPT !.dirs = @ \cup {env'.root}]
    /\ recon' = IdleRecon
    /\ walk' = [IdleWalk EXCEPT !.selected_suffixes = walk.selected_suffixes]
    /\ UNCHANGED <<doc, impl, attempts, worker>>
    /\ UNCHANGED codecVars /\ UNCHANGED exclVars

InitCycle ==
    /\ file_data = <<>>
    /\ text_area = <<>>
    /\ origin = <<>>
    /\ origin_text = <<>>
    /\ stage = "empty"
    /\ doc = <<>>
    /\ impl = "fp"
    /\ env = [root |-> OutputRoot, root_exists |-> TRUE, bad_dirs |-> {}, bad_files |-> {}]
    /\ fs = InitFs(env)
    /\ attempts = 0
    /\ recon = IdleRecon
    /\ rules = ParseRules(<<>>)
    /\ cand = <<>>
    /\ verdict = NoVerdict
    /\ tree \in CycleTrees
    /\ walk \in {[IdleWalk EXCEPT !.selected_suffixes = sel] : sel \in PackSelections}
    /\ worker = IdleWorker
    /\ config = NoConfig
    /\ gui = NoGui

NextCycle ==
    \/ CombineFiles
    \/ ReconFpBegin
    \/ ReconFpStep
    \/ ReconFpEnd
    \/ BrowseReconstructed

SpecCycle == InitCycle /\ [][NextCycle]_vars

\* the files below a directory, by their paths relative to it
FilesBelow(files, root) ==
    {<<relpath(f, root), files[f]>> : f \in {g \in DOMAIN files : IsBelow(g, root)}}

\* the output directory holds the reconstruction of the pack of the source tree
ReconstructedFromPack ==
    /\ walk.pc = "done"
    /\ text_area = walk.combined
    /\ recon.pc = "done"
    /\ recon.success

\* C29: pack and reconstruct cycles do not accumulate path comments.  Every
\* file written by a reconstruction starts with a path comment; the pack of a
\* reconstructed tree holds for each file a block with exactly one
\* path-comment line, its first; and once the source tree is itself a
\* reconstructed tree, reconstructing its pack reproduces it: the same
\* relative paths with the same contents.
C29_CyclesReproduceTree ==
    /\ (recon.pc = "done" /\ recon.success) =>
          \A p \in FilesBelow(fs.files, env.root) : IsPathComment(FirstLine(p[2]))
    /\ (tree.root # SourceRoot /\ walk.pc = "done") =>
          \A k \in 1..Len(CombinedBlocks) :
              /\ IsPathComment(FirstLine(CombinedBlocks[k].body))
              /\ ~IsPathComment(FirstLine(AfterFirstLine(CombinedBlocks[k].body)))
    /\ (tree.root # SourceRoot /\ ReconstructedFromPack) =>
          FilesBelow(fs.files, env.root) = FilesBelow(tree.files, tree.root)

\* the conclusion of C29 alone: reconstructing the pack of a reconstructed tree
\* gives the same relative paths with the same contents
CyclesReproduceFiles ==
    (tree.root # SourceRoot /\ ReconstructedFromPack) =>
        FilesBelow(fs.files, env.root) = FilesBelow(tree.files, tree.root)

\* every file of the source tree is selected and starts with the path comment
\* of its own relative path
StartsWithOwnPathComment ==
    \A f \in DOMAIN tree.files :
        /\ lower(splitext_ext(f)) \in walk.selected_suffixes \cap DOMAIN SuffixMap
        /\ IsPathComment(FirstLine(tree.files[f]))
        /\ Strip(FIRST_LINE_PATH_COMMENT_PATTERN(Strip(FirstLine(tree.files[f]))).g1)
               = relpath(f, tree.root)

\* the conclusion of C29 for the reconstructed trees whose files do start with
\* their own path comments
C29_OwnCommentTreesReproduce ==
    (tree.root # SourceRoot /\ ReconstructedFromPack /\ StartsWithOwnPathComment) =>
        FilesBelow(fs.files, env.root) = FilesBelow(tree.files, tree.root)

\* C29 cycle reached: a reconstructed tree was packed and reconstructed again
C29_SecondCycle ==
    /\ tree.root # SourceRoot
    /\ ReconstructedFromPack
    /\ tree.files # <<>>

=========================================================================
